---- MODULE Spec2Model ----
(***************************************************************************)
(* A model of the ACE learning loop: the Playbook store, the Reflector's   *)
(* quality-gated refinement loop and the Curator's deduplicating           *)
(* synthesis of delta operations.                                          *)
(*                                                                         *)
(* Representation.  A JavaScript string is a sequence of one-character     *)
(* strings.  A JavaScript object with optional fields is a function whose  *)
(* DOMAIN holds exactly the fields that are present, so `x.f === undefined`*)
(* is `"f" \notin DOMAIN x` and the spread {...a, ...b} is Spread(a, b).   *)
(* A bullet id is a natural number; 0 is the empty string (falsy).         *)
(* The Playbook's Map is a sequence of bullets in insertion order.         *)
(***************************************************************************)
EXTENDS Integers, Sequences, FiniteSets, TLC

VARIABLES
    bullets,     \* Playbook.bullets: the Map, as a sequence in insertion order
    nextUuid,    \* the next id uuidv4() hands out (every uuid is fresh)
    now,         \* the wall clock read by new Date()
    lastOp,      \* the last Playbook call with its arguments and outcome
    steps,       \* how many calls the behaviour has made
    reflection,  \* the Reflector and the reflect() call in progress
    curation,    \* the Curator and the curate() call in progress
    generation   \* the Generator and the generate() call in progress

storeVars == <<bullets, nextUuid, now, lastOp, steps>>
outsideStore == <<reflection, curation, generation>>
outsideReflect == <<bullets, nextUuid, now, lastOp, steps, curation, generation>>
vars == <<bullets, nextUuid, now, lastOp, steps, reflection, curation,
          generation>>

----------------------------------------------------------------------------
(* Bounds of the model *)

MaxUuid == 2            \* uuids handed out in one behaviour
MaxCount == 2           \* feedback calls are cut off at this counter value
MaxTime == 1            \* the clock stops here
MaxOps == 3             \* longest delta batch in SpecDeltas
MaxStoreOps == 1        \* longest delta batch in SpecStore
MaxSteps == 3           \* calls in one behaviour of SpecStore
maxPlaybookSize == 2    \* ACEConfig.maxPlaybookSize the Playbook is built with

----------------------------------------------------------------------------
(* Strings and objects *)

\* The characters that String.prototype.trim removes.
IsSpace(c) == c = " "

RECURSIVE TrimLeft(_)
TrimLeft(s) ==
    IF s = <<>> THEN <<>>
    ELSE IF IsSpace(Head(s)) THEN TrimLeft(Tail(s)) ELSE s

RECURSIVE TrimRight(_)
TrimRight(s) ==
    IF s = <<>> THEN <<>>
    ELSE IF IsSpace(s[Len(s)]) THEN TrimRight(SubSeq(s, 1, Len(s) - 1)) ELSE s

\* String.prototype.trim
Trim(s) == TrimRight(TrimLeft(s))

\* The object spread {...a, ...b}: b's fields win.
Spread(a, b) ==
    [k \in DOMAIN a \cup DOMAIN b |-> IF k \in DOMAIN b THEN b[k] ELSE a[k]]

\* The empty object {}.
EmptyObj == <<>>

Has(obj, f) == f \in DOMAIN obj

----------------------------------------------------------------------------
(* Numbers.  A JavaScript number is an exact fraction [n, d] in lowest     *)
(* terms with d > 0, or NaN (d = 0).                                       *)

RECURSIVE GCD(_, _)
GCD(a, b) == IF b = 0 THEN a ELSE GCD(b, a % b)

Abs(x) == IF x < 0 THEN -x ELSE x

NaN == [n |-> 0, d |-> 0]

Rat(n, d) ==
    LET g == GCD(Abs(n), d)
    IN  [n |-> n \div g, d |-> d \div g]

IsNaN(x) == x.d = 0

Zero == Rat(0, 1)
One == Rat(1, 1)

\* x >= y, x < y and x = y as JavaScript compares numbers: false on NaN.
Geq(x, y) == ~IsNaN(x) /\ ~IsNaN(y) /\ x.n * y.d >= y.n * x.d
Less(x, y) == ~IsNaN(x) /\ ~IsNaN(y) /\ x.n * y.d < y.n * x.d

\* Math.min and Math.max: NaN when an argument is NaN.
MathMin(x, y) == IF IsNaN(x) \/ IsNaN(y) THEN NaN ELSE IF Geq(x, y) THEN y ELSE x
MathMax(x, y) == IF IsNaN(x) \/ IsNaN(y) THEN NaN ELSE IF Geq(x, y) THEN x ELSE y

\* Math.max(0, Math.min(1, x))
Clamp01(x) == MathMax(Zero, MathMin(One, x))

Plus(x, y) ==
    IF IsNaN(x) \/ IsNaN(y) THEN NaN ELSE Rat(x.n * y.d + y.n * x.d, x.d * y.d)

\* x / k for a positive integer k
Over(x, k) == IF IsNaN(x) THEN NaN ELSE Rat(x.n, x.d * k)

\* `x || dflt` for a number: 0 and NaN are falsy.
NumOr(x, dflt) == IF IsNaN(x) \/ x.n = 0 THEN dflt ELSE x

----------------------------------------------------------------------------
(* Model output.  A chat response is a text; what the parsers read of it is *)
(* its JSON.parse result (`json`, tag "invalid" when JSON.parse throws) and *)
(* its lines, each a sequence of tokens [w, digits, num]: the word, whether *)
(* it matches [0-9.]+, and what parseFloat makes of it.  A JSON value is    *)
(* tagged: null, bool, num, str (a word sequence), arr, obj.                *)

JNull == [t |-> "null"]
JBool(b) == [t |-> "bool", v |-> b]
JNum(x) == [t |-> "num", v |-> x]
\* A JSON string, with what Number() makes of it.
JStr(words, asNumber) == [t |-> "str", v |-> words, n |-> asNumber]
JArr(seq) == [t |-> "arr", v |-> seq]
JObj(fields) == [t |-> "obj", v |-> fields]
JInvalid == [t |-> "invalid"]
\* A JSON string that the model keeps as one word (an operation type, a
\* recommendation), a JSON string that is a bullet id, and a JSON object that
\* the model keeps as its own record (a bullet's metadata, an UPDATE's updates).
JWord(w) == [t |-> "word", v |-> w]
JId(id) == [t |-> "id", v |-> id]
JRecord(fields) == [t |-> "rec", v |-> fields]

\* `value.f`, as a JSON value or [t |-> "undefined"]; only called on a
\* value that is not null (a property read of null throws a TypeError).
Prop(value, f) ==
    IF value.t = "obj" /\ Has(value.v, f) THEN value.v[f] ELSE [t |-> "undefined"]

\* Truthiness of a JSON value.
Truthy(value) ==
    CASE value.t \in {"undefined", "null"} -> FALSE
      [] value.t = "bool" -> value.v
      [] value.t = "num" -> ~IsNaN(value.v) /\ value.v.n # 0
      [] value.t = "str" -> value.v # <<>>
      [] value.t = "word" -> value.v # ""
      [] value.t = "id" -> value.v # 0
      [] OTHER -> TRUE

\* ToNumber, as Math.min applies it to a truthy value.
ToNumber(value) ==
    CASE value.t = "num" -> value.v
      [] value.t = "str" -> value.n
      [] value.t = "bool" -> IF value.v THEN One ELSE Zero
      [] value.t = "null" -> Zero
      [] OTHER -> NaN

\* `value || ''` for a field the model fills with a string.
StrOr(value, dflt) == IF value.t = "str" /\ value.v # <<>> THEN value.v ELSE dflt

Word(w) == [w |-> w, digits |-> FALSE, num |-> NaN]
Digits(w, x) == [w |-> w, digits |-> TRUE, num |-> x]

Response(json, lines) == [failed |-> FALSE, json |-> json, lines |-> lines]
\* The Gateway call rejects; `ace` tells whether the error is an ACEError
\* (the adapters throw LLMProviderError, which extends ACEError).
Rejection(ace) == [failed |-> TRUE, ace |-> ace]

----------------------------------------------------------------------------
(* Identifiers *)

\* Ids that uuidv4() hands out, in the order it hands them out.
UuidIds == 1..MaxUuid

\* An id that no uuidv4() call produces (one a model or a caller made up).
ForeignId == MaxUuid + 1

\* The ids a caller can name at a given moment: the uuids handed out so far
\* and the made-up one.  A uuid is never named before it exists.
KnownIds(next) == (1..(next - 1)) \cup {ForeignId}

----------------------------------------------------------------------------
(* The Playbook: a Map<string, Bullet> in insertion order *)

\* An entry of the Map is [key, val]; keys are unique by construction of
\* MapSet, and the entries keep their insertion order.
RECURSIVE IndexOf(_, _, _)
IndexOf(bs, id, i) ==
    IF i > Len(bs) THEN 0
    ELSE IF bs[i].key = id THEN i ELSE IndexOf(bs, id, i + 1)

\* Map.prototype.has
MapHas(bs, id) == IndexOf(bs, id, 1) # 0

\* Map.prototype.get (on a key that is present)
MapGet(bs, id) == bs[IndexOf(bs, id, 1)].val

\* Map.prototype.set: a present key keeps its place, a new key goes last.
MapSet(bs, id, b) ==
    IF MapHas(bs, id)
    THEN [bs EXCEPT ![IndexOf(bs, id, 1)] = [key |-> id, val |-> b]]
    ELSE Append(bs, [key |-> id, val |-> b])

\* Map.prototype.delete
MapDelete(bs, id) ==
    LET i == IndexOf(bs, id, 1)
    IN  IF i = 0 THEN bs
        ELSE SubSeq(bs, 1, i - 1) \o SubSeq(bs, i + 1, Len(bs))

MapKeys(bs) == {bs[i].key : i \in 1..Len(bs)}

\* Array.from(map.values())
MapValues(bs) == [i \in 1..Len(bs) |-> bs[i].val]

\* `!x.f` for a string or id field: absent, the empty string, or the id "".
FalsyStr(obj, f) == ~Has(obj, f) \/ obj[f] = <<>>
FalsyId(obj, f) == ~Has(obj, f) \/ obj[f] = 0

\* The messages of the PlaybookError a call throws.
SizeLimitReached == "Playbook size limit reached"
FieldsRequired == "Section and content are required"
BulletNotFound == "Bullet not found"

\* What a Playbook call gives back: the Map afterwards, whether it threw (and
\* the message of the error), and the id or boolean it returned.
Returned(bs, r) == [bullets |-> bs, threw |-> FALSE, ret |-> r, message |-> ""]
Thrown(bs, message) ==
    [bullets |-> bs, threw |-> TRUE, ret |-> 0, message |-> message]

\* addBullet as a store that makes room would do it: at the size limit the
\* oldest bullet gives way to the new one.
addBulletEvicting(bs, section, content, metadata, uuid, t) ==
    LET room == IF Len(bs) >= maxPlaybookSize /\ bs # <<>> THEN Tail(bs) ELSE bs
        bullet == [id |-> uuid, section |-> Trim(section), content |-> Trim(content),
                   metadata |-> Spread([created |-> t, helpful_count |-> 0,
                                        harmful_count |-> 0], metadata)]
    IN  IF section = <<>> \/ Trim(content) = <<>> THEN Thrown(bs, FieldsRequired)
        ELSE Returned(MapSet(room, bullet.id, bullet), bullet.id)

\* Playbook.addBullet(section, content, metadata?) with the uuid and the
\* date it draws; `metadata` is EmptyObj when the argument is omitted.
addBullet(bs, section, content, metadata, uuid, t) ==
    IF Len(bs) >= maxPlaybookSize THEN Thrown(bs, SizeLimitReached)
    ELSE IF section = <<>> \/ Trim(content) = <<>> THEN Thrown(bs, FieldsRequired)
    ELSE LET bullet ==
                 [id |-> uuid,
                  section |-> Trim(section),
                  content |-> Trim(content),
                  metadata |-> Spread([created |-> t,
                                       helpful_count |-> 0,
                                       harmful_count |-> 0], metadata)]
         IN  Returned(MapSet(bs, bullet.id, bullet), bullet.id)

\* updateBullet with the metadata of the update taken whole instead of
\* merged into the bullet's.
updateBulletReplacingMetadata(bs, id, updates) ==
    IF ~MapHas(bs, id) THEN Thrown(bs, BulletNotFound)
    ELSE LET bullet == MapGet(bs, id)
             updatedBullet == Spread(Spread(bullet, updates), [id |-> bullet.id])
         IN  IF FalsyStr(updatedBullet, "section")
                \/ ~Has(updatedBullet, "content")
                \/ Trim(updatedBullet.content) = <<>>
             THEN Thrown(bs, FieldsRequired)
             ELSE Returned(MapSet(bs, id, updatedBullet), id)

\* Playbook.updateBullet(id, updates)
updateBullet(bs, id, updates) ==
    IF ~MapHas(bs, id) THEN Thrown(bs, BulletNotFound)
    ELSE LET bullet == MapGet(bs, id)
             updatedBullet ==
                 Spread(Spread(bullet, updates),
                        [id |-> bullet.id,
                         metadata |-> Spread(bullet.metadata,
                                             IF Has(updates, "metadata")
                                             THEN updates.metadata
                                             ELSE EmptyObj)])
         IN  IF FalsyStr(updatedBullet, "section")
                \/ ~Has(updatedBullet, "content")
                \/ Trim(updatedBullet.content) = <<>>
             THEN Thrown(bs, FieldsRequired)
             ELSE Returned(MapSet(bs, id, updatedBullet), id)

\* deleteBullet reporting success whether or not the id was present.
deleteBulletAlwaysTrue(bs, id) == Returned(MapDelete(bs, id), 1)

\* Playbook.deleteBullet(id): true exactly when the id was present.
deleteBullet(bs, id) ==
    Returned(MapDelete(bs, id), IF MapHas(bs, id) THEN 1 ELSE 0)

\* FeedbackOne as a net score would keep it: harmful feedback takes one off
\* helpful_count.
FeedbackOneNet(bs, id, type, t) ==
    IF ~MapHas(bs, id) THEN bs
    ELSE LET bullet == MapGet(bs, id)
             md == bullet.metadata
             counted == IF type = "helpful"
                        THEN Spread(md, [helpful_count |-> md.helpful_count + 1])
                        ELSE Spread(md, [helpful_count |-> md.helpful_count - 1,
                                         harmful_count |-> md.harmful_count + 1])
         IN  MapSet(bs, id,
                    [bullet EXCEPT !.metadata = Spread(counted, [last_used |-> t])])

\* FeedbackOne storing a bullet for an id the Map does not hold instead of
\* skipping it.
FeedbackOneCreating(bs, id, type, t) ==
    LET bullet == IF MapHas(bs, id) THEN MapGet(bs, id)
                  ELSE [id |-> id, section |-> <<"S">>, content |-> <<"a">>,
                        metadata |-> [created |-> t, helpful_count |-> 0,
                                      harmful_count |-> 0]]
        md == bullet.metadata
        counted == IF type = "helpful"
                   THEN Spread(md, [helpful_count |-> md.helpful_count + 1])
                   ELSE Spread(md, [harmful_count |-> md.harmful_count + 1])
    IN  MapSet(bs, id,
               [bullet EXCEPT !.metadata = Spread(counted, [last_used |-> t])])

\* The body of updateBulletFeedback's loop for one id: the counter named by
\* `type` goes up by one and last_used is stamped; an unknown id is skipped.
FeedbackOne(bs, id, type, t) ==
    IF ~MapHas(bs, id) THEN bs
    ELSE LET bullet == MapGet(bs, id)
             md == bullet.metadata
             counted == IF type = "helpful"
                        THEN Spread(md, [helpful_count |-> md.helpful_count + 1])
                        ELSE Spread(md, [harmful_count |-> md.harmful_count + 1])
         IN  MapSet(bs, id,
                    [bullet EXCEPT !.metadata = Spread(counted, [last_used |-> t])])

\* updateBulletFeedback stamping last_used on every stored bullet, listed or
\* not.
updateBulletFeedbackStampingAll(bs, bulletIds, type, t) ==
    LET Counted[k \in 0..Len(bulletIds)] ==
            IF k = 0 THEN bs ELSE FeedbackOne(Counted[k - 1], bulletIds[k], type, t)
        counted == Counted[Len(bulletIds)]
    IN  [i \in 1..Len(counted) |->
            [counted[i] EXCEPT !.val.metadata = Spread(@, [last_used |-> t])]]

\* Playbook.updateBulletFeedback(bulletIds, type)
RECURSIVE updateBulletFeedback(_, _, _, _)
updateBulletFeedback(bs, bulletIds, type, t) ==
    IF bulletIds = <<>> THEN bs
    ELSE updateBulletFeedback(FeedbackOne(bs, Head(bulletIds), type, t),
                              Tail(bulletIds), type, t)

\* Playbook.clear()
clear(bs) == <<>>

\* Playbook.import(bullets): the entries that pass the structure check, in
\* order, over an emptied Map.
RECURSIVE ImportInto(_, _)
ImportInto(bs, list) ==
    IF list = <<>> THEN bs
    ELSE LET bullet == Head(list)
         IN  IF FalsyId(bullet, "id") \/ FalsyStr(bullet, "section")
                \/ FalsyStr(bullet, "content") \/ ~Has(bullet, "metadata")
             THEN ImportInto(bs, Tail(list))
             ELSE ImportInto(MapSet(bs, bullet.id, bullet), Tail(list))

import(bs, list) == ImportInto(clear(bs), list)

\* Playbook.export()
export(bs) == MapValues(bs)

\* Playbook.getBullets(filter) for a filter on section and on the two
\* counters; a filter field that is absent, or a section that is empty
\* (falsy), filters nothing.
getBullets(bs, filter) ==
    LET Matches(b) ==
            /\ ~FalsyStr(filter, "section") => b.section = filter.section
            /\ Has(filter, "min_helpful_count")
                   => b.metadata.helpful_count >= filter.min_helpful_count
            /\ Has(filter, "max_harmful_count")
                   => b.metadata.harmful_count <= filter.max_harmful_count
    IN  SelectSeq(MapValues(bs), Matches)

----------------------------------------------------------------------------
(* Playbook.applyDeltas *)

\* A DeltaOperation is an object with `type` and the optional `bullet`,
\* `bulletId` and `updates`.  The loop carries the Map, the uuid counter and
\* the `results` tally.
DeltaStart(bs, next) ==
    [bullets |-> bs, next |-> next,
     added |-> 0, updated |-> 0, deleted |-> 0, errors |-> 0]

\* Whether the switch statement throws on `operation` in Map `bs`.
OperationThrows(bs, operation) ==
    CASE operation.type = "ADD" -> ~Has(operation, "bullet")
      [] operation.type = "UPDATE" ->
            \/ FalsyId(operation, "bulletId")
            \/ ~Has(operation, "updates")
            \/ updateBullet(bs, operation.bulletId, operation.updates).threw
      [] operation.type = "DELETE" -> FalsyId(operation, "bulletId")
      [] OTHER -> TRUE

\* The switch statement on an operation that does not throw.
OperationEffect(st, operation) ==
    CASE operation.type = "ADD" ->
            LET fresh == FalsyId(operation.bullet, "id")
                bulletToAdd ==
                    Spread(operation.bullet,
                           [id |-> IF fresh THEN st.next ELSE operation.bullet.id])
            IN  [st EXCEPT !.bullets = MapSet(st.bullets, bulletToAdd.id, bulletToAdd),
                           !.next = IF fresh THEN st.next + 1 ELSE st.next,
                           !.added = st.added + 1]
      [] operation.type = "UPDATE" ->
            [st EXCEPT !.bullets = updateBullet(st.bullets, operation.bulletId,
                                                operation.updates).bullets,
                       !.updated = st.updated + 1]
      [] operation.type = "DELETE" ->
            LET r == deleteBullet(st.bullets, operation.bulletId)
            IN  [st EXCEPT !.bullets = r.bullets,
                           !.deleted = IF r.ret = 1 THEN st.deleted + 1
                                       ELSE st.deleted]

\* One turn of the loop: try { switch } catch { results.errors++ }.
DeltaStep(st, operation) ==
    IF OperationThrows(st.bullets, operation)
    THEN [st EXCEPT !.errors = st.errors + 1]
    ELSE OperationEffect(st, operation)

\* DeltaLoop with the try/catch around the whole loop: the first operation
\* that throws ends the batch.
RECURSIVE DeltaLoopAborting(_, _)
DeltaLoopAborting(st, operations) ==
    IF operations = <<>> THEN st
    ELSE IF OperationThrows(st.bullets, Head(operations))
         THEN [st EXCEPT !.errors = st.errors + 1]
         ELSE DeltaLoopAborting(DeltaStep(st, Head(operations)), Tail(operations))

RECURSIVE DeltaLoop(_, _)
DeltaLoop(st, operations) ==
    IF operations = <<>> THEN st
    ELSE DeltaLoop(DeltaStep(st, Head(operations)), Tail(operations))

\* Playbook.applyDeltas(operations): the loop's final state; nothing escapes
\* the per-operation try/catch.
applyDeltas(bs, next, operations) == DeltaLoop(DeltaStart(bs, next), operations)

\* How many uuids a batch may draw.
UuidDemand(operations) ==
    Cardinality({k \in 1..Len(operations) :
                    /\ operations[k].type = "ADD"
                    /\ Has(operations[k], "bullet")
                    /\ FalsyId(operations[k].bullet, "id")})

----------------------------------------------------------------------------
(* The Reflector *)

DefaultMaxIterations == 5       \* constructor default of maxIterations
DefaultQualityThreshold == Rat(4, 5)
DefaultConfidence == Rat(1, 2)
General == <<"General">>

\* `n || dflt` for an optional integer option.
IntOr(obj, f, dflt) == IF Has(obj, f) /\ obj[f] # 0 THEN obj[f] ELSE dflt

\* `x || dflt` for an optional number option.
RatOr(obj, f, dflt) == IF Has(obj, f) THEN NumOr(obj[f], dflt) ELSE dflt

\* One element of parsed.insights mapped to an Insight.
InsightOfJson(insight) ==
    [observation |-> StrOr(Prop(insight, "observation"), <<>>),
     lesson |-> StrOr(Prop(insight, "lesson"), <<>>),
     suggested_bullet |-> StrOr(Prop(insight, "suggested_bullet"), <<>>),
     confidence |->
         LET c == Prop(insight, "confidence")
         IN  Clamp01(IF Truthy(c) THEN ToNumber(c) ELSE DefaultConfidence),
     section |-> StrOr(Prop(insight, "section"), General)]

isValidInsight(insight) ==
    /\ Has(insight, "observation") /\ insight.observation # <<>>
    /\ Has(insight, "lesson") /\ insight.lesson # <<>>
    /\ Has(insight, "suggested_bullet") /\ insight.suggested_bullet # <<>>

completeInsight(insight) ==
    [observation |-> IF Has(insight, "observation") THEN insight.observation ELSE <<>>,
     lesson |-> IF Has(insight, "lesson") THEN insight.lesson ELSE <<>>,
     suggested_bullet |->
         IF Has(insight, "suggested_bullet") THEN insight.suggested_bullet ELSE <<>>,
     confidence |-> RatOr(insight, "confidence", DefaultConfidence),
     section |-> IF Has(insight, "section") /\ insight.section # <<>>
                 THEN insight.section ELSE General]

\* line.toLowerCase().includes(key); the model writes its keys in lower case.
Includes(line, key) == \E i \in DOMAIN line : line[i].w = key

FirstAt(line, key) == CHOOSE i \in DOMAIN line :
    line[i].w = key /\ \A j \in 1..(i - 1) : line[j].w # key

\* line.replace(/key\s*/i, ''): the line without the first occurrence of key.
Replace(line, key) ==
    LET i == FirstAt(line, key)
        rest == SubSeq(line, 1, i - 1) \o SubSeq(line, i + 1, Len(line))
    IN  [j \in DOMAIN rest |-> rest[j].w]

\* The places where /confidence:\s*([0-9.]+)/i matches.
ConfidenceMatches(line) ==
    {i \in DOMAIN line :
        line[i].w = "confidence:" /\ i < Len(line) /\ line[i + 1].digits}

\* The loop body of extractInsightsFromText on one line.
ExtractLine(acc, line) ==
    CASE Includes(line, "observation:") ->
           LET saved ==
                   IF Has(acc.currentInsight, "observation")
                      /\ acc.currentInsight.observation # <<>>
                   THEN [insights |->
                            IF isValidInsight(acc.currentInsight)
                            THEN Append(acc.insights,
                                        completeInsight(acc.currentInsight))
                            ELSE acc.insights,
                         currentInsight |-> EmptyObj]
                   ELSE acc
           IN  [saved EXCEPT !.currentInsight =
                   Spread(@, [observation |-> Replace(line, "observation:")])]
      [] ~Includes(line, "observation:") /\ Includes(line, "lesson:") ->
           [acc EXCEPT !.currentInsight =
               Spread(@, [lesson |-> Replace(line, "lesson:")])]
      [] /\ ~Includes(line, "observation:") /\ ~Includes(line, "lesson:")
         /\ Includes(line, "suggested_bullet:") ->
           [acc EXCEPT !.currentInsight =
               Spread(@, [suggested_bullet |-> Replace(line, "suggested_bullet:")])]
      [] /\ ~Includes(line, "observation:") /\ ~Includes(line, "lesson:")
         /\ ~Includes(line, "suggested_bullet:")
         /\ Includes(line, "confidence:") ->
           IF ConfidenceMatches(line) = {} THEN acc
           ELSE LET i == CHOOSE k \in ConfidenceMatches(line) :
                             \A j \in ConfidenceMatches(line) : k <= j
                IN  [acc EXCEPT !.currentInsight =
                        Spread(@, [confidence |-> line[i + 1].num])]
      [] /\ ~Includes(line, "observation:") /\ ~Includes(line, "lesson:")
         /\ ~Includes(line, "suggested_bullet:")
         /\ ~Includes(line, "confidence:") /\ Includes(line, "section:") ->
           [acc EXCEPT !.currentInsight =
               Spread(@, [section |-> Replace(line, "section:")])]
      [] OTHER -> acc

RECURSIVE ExtractLines(_, _)
ExtractLines(acc, lines) ==
    IF lines = <<>> THEN acc
    ELSE ExtractLines(ExtractLine(acc, Head(lines)), Tail(lines))

extractInsightsFromText(lines) ==
    LET acc == ExtractLines([insights |-> <<>>, currentInsight |-> EmptyObj], lines)
    IN  IF isValidInsight(acc.currentInsight)
        THEN Append(acc.insights, completeInsight(acc.currentInsight))
        ELSE acc.insights

\* parseInsights: the JSON path when parsed.insights is an array whose map
\* does not throw (no element is null), otherwise the text fallback.
parseInsights(response) ==
    LET parsed == response.json
        list == Prop(parsed, "insights")
    IN  IF /\ parsed.t \notin {"invalid", "null"}
           /\ list.t = "arr"
           /\ \A i \in DOMAIN list.v : list.v[i].t # "null"
        THEN [i \in DOMAIN list.v |-> InsightOfJson(list.v[i])]
        ELSE extractInsightsFromText(response.lines)

RECURSIVE SumConfidence(_)
SumConfidence(insights) ==
    IF insights = <<>> THEN Zero
    ELSE Plus(SumConfidence(Tail(insights)), Head(insights).confidence)

\* assessQuality when insights.length === 0: no chat call is made.
EmptyAssessment ==
    [made |-> TRUE, overall_quality |-> Zero, should_refine |-> TRUE,
     assessed |-> <<>>]

NoAssessment == [made |-> FALSE]

\* assessQuality once the chat call has returned `response`.
assessQuality(insights, response) ==
    LET assessment == response.json
        avgConfidence == Over(SumConfidence(insights), Len(insights))
    IN  IF assessment.t \in {"invalid", "null"}
        THEN [made |-> TRUE, overall_quality |-> avgConfidence,
              should_refine |-> Less(avgConfidence, Rat(7, 10)),
              assessed |-> insights]
        ELSE LET q == Prop(assessment, "overall_quality")
                 r == Prop(assessment, "should_refine")
             IN  [made |-> TRUE,
                  overall_quality |->
                      Clamp01(IF Truthy(q) THEN ToNumber(q) ELSE Zero),
                  should_refine |-> ~(r.t = "bool" /\ r.v = FALSE),
                  assessed |-> insights]

\* refineInsights once the chat call has returned: what parseInsights read,
\* or the original insights when it read none.  The first definition is the
\* variant that returns whatever the refinement read.
refineInsightsUnguarded(insights, refinedInsights) == refinedInsights

refineInsights(insights, refinedInsights) ==
    IF Len(refinedInsights) = 0 THEN insights ELSE refinedInsights

\* new Reflector(llmProvider, maxIterations)
NewReflector(ctorMaxIterations) ==
    [pc |-> "idle", this_maxIterations |-> ctorMaxIterations,
     options |-> EmptyObj, maxIterations |-> 0, qualityThreshold |-> Zero,
     insights |-> <<>>, currentQuality |-> Zero, iterations |-> 0,
     assessment |-> NoAssessment, refinedCount |-> -1, produced |-> FALSE,
     chats |-> 0, error |-> "none"]

\* reflect returns {insights, iterations, quality_score: currentQuality}.
ReflectReturn(r) == [r EXCEPT !.pc = "returned"]

\* The catch block of reflect: an ACEError is rethrown as it is, any other
\* error is wrapped in a ReflectorError that keeps it as the cause.
ReflectCatch(r, rejection) ==
    [r EXCEPT !.pc = "thrown",
              !.error = IF rejection.ace THEN "ACEError" ELSE "ReflectorError(cause)"]

\* The loop test `iterations < maxIterations`, with its off-by-one variant.
LoopTestInclusive(iterations, maxIterations) == iterations <= maxIterations
LoopTest(iterations, maxIterations) == iterations < maxIterations

\* `currentQuality >= qualityThreshold || !assessment.should_refine`
BreakTest(r, assessment) ==
    Geq(assessment.overall_quality, r.qualityThreshold) \/ ~assessment.should_refine

\* From an assessment to the next await: break, or issue the refinement call.
AfterAssessment(r, assessment) ==
    LET assessed == [r EXCEPT !.assessment = assessment,
                              !.currentQuality = assessment.overall_quality]
    IN  IF BreakTest(r, assessment) THEN ReflectReturn(assessed)
        ELSE [assessed EXCEPT !.pc = "refine", !.chats = @ + 1]

\* From the loop test to the next await.
WhileLoop(r) ==
    IF LoopTest(r.iterations, r.maxIterations)
    THEN IF Len(r.insights) = 0 THEN AfterAssessment(r, EmptyAssessment)
         ELSE [r EXCEPT !.pc = "assess", !.chats = @ + 1]
    ELSE ReflectReturn(r)

\* reflect(trajectory, options) up to its first await.
reflect(r, trajectory, options) ==
    LET called == [NewReflector(r.this_maxIterations) EXCEPT
                      !.options = options,
                      !.maxIterations =
                          IntOr(options, "maxIterations", r.this_maxIterations),
                      !.qualityThreshold =
                          RatOr(options, "qualityThreshold", DefaultQualityThreshold)]
    IN  IF trajectory.query = <<>> \/ trajectory.response = <<>>
        THEN [called EXCEPT !.pc = "thrown", !.error = "ReflectorError"]
        ELSE [called EXCEPT !.pc = "analysis", !.chats = 1]

\* performInitialAnalysis resumes with the chat response.
AnalysisResumes(r, response) ==
    IF response.failed THEN ReflectCatch(r, response)
    ELSE WhileLoop([r EXCEPT !.insights = parseInsights(response),
                             !.produced = Len(parseInsights(response)) > 0,
                             !.currentQuality = Zero,
                             !.iterations = 1])

\* assessQuality resumes with the chat response.
AssessmentResumes(r, response) ==
    IF response.failed THEN ReflectCatch(r, response)
    ELSE AfterAssessment(r, assessQuality(r.insights, response))

\* refineInsights resumes with the chat response.
RefinementResumes(r, response) ==
    IF response.failed THEN ReflectCatch(r, response)
    ELSE LET refinedInsights == parseInsights(response)
         IN  WhileLoop([r EXCEPT
                 !.insights = refineInsights(r.insights, refinedInsights),
                 !.refinedCount = Len(refinedInsights),
                 !.produced = @ \/ Len(refinedInsights) > 0,
                 !.iterations = @ + 1])

----------------------------------------------------------------------------
(* Playbook.findSimilarBullets.  An embedding is a sequence of integers; a *)
(* similarity is kept exact as [dot, mm], standing for dot / sqrt(mm).     *)

RECURSIVE Dot(_, _)
Dot(a, b) == IF a = <<>> THEN 0 ELSE Head(a) * Head(b) + Dot(Tail(a), Tail(b))

\* Playbook.cosineSimilarity on vectors of the same length.
cosineSimilarity(a, b) ==
    IF Dot(a, a) = 0 \/ Dot(b, b) = 0 THEN [dot |-> 0, mm |-> 1]
    ELSE [dot |-> Dot(a, b), mm |-> Dot(a, a) * Dot(b, b)]

\* similarity >= threshold, for a threshold that is not NaN
SimilarityGeq(sim, threshold) ==
    LET l == sim.dot * threshold.d
        r == threshold.n
    IN  CASE l >= 0 /\ r <= 0 -> TRUE
          [] l < 0 /\ r >= 0 -> FALSE
          [] l >= 0 /\ r > 0 -> l * l >= r * r * sim.mm
          [] OTHER -> l * l <= r * r * sim.mm

\* simX > simY
SimilarityGreater(x, y) ==
    LET l == x.dot
        r == y.dot
    IN  CASE l >= 0 /\ r < 0 -> TRUE
          [] l < 0 /\ r >= 0 -> FALSE
          [] l >= 0 /\ r >= 0 -> l * l * y.mm > r * r * x.mm
          [] OTHER -> l * l * y.mm < r * r * x.mm

\* Array.prototype.sort with the comparator simB - simA (a stable sort):
\* `bullet` goes in front of the first element that is less similar.
RECURSIVE InsertBySimilarity(_, _, _)
InsertBySimilarity(sorted, bullet, embedding) ==
    IF sorted = <<>> THEN <<bullet>>
    ELSE IF SimilarityGreater(cosineSimilarity(embedding, bullet.metadata.embedding),
                              cosineSimilarity(embedding, Head(sorted).metadata.embedding))
         THEN <<bullet>> \o sorted
         ELSE <<Head(sorted)>> \o InsertBySimilarity(Tail(sorted), bullet, embedding)

RECURSIVE SortBySimilarity(_, _, _)
SortBySimilarity(sorted, rest, embedding) ==
    IF rest = <<>> THEN sorted
    ELSE SortBySimilarity(InsertBySimilarity(sorted, Head(rest), embedding),
                          Tail(rest), embedding)

Embedded(bullet) == Has(bullet.metadata, "embedding")

\* findSimilarBullets(embedding, threshold): cosineSimilarity throws when a
\* stored embedding has another length than `embedding`.
findSimilarBullets(bs, embedding, threshold) ==
    LET stored == SelectSeq(MapValues(bs), Embedded)
        IsSimilar(bullet) ==
            SimilarityGeq(cosineSimilarity(embedding, bullet.metadata.embedding),
                          threshold)
    IN  IF \E i \in DOMAIN stored :
               Len(stored[i].metadata.embedding) # Len(embedding)
        THEN [threw |-> TRUE, similar |-> <<>>]
        ELSE [threw |-> FALSE,
              similar |-> SortBySimilarity(<<>>, SelectSeq(stored, IsSimilar),
                                           embedding)]

----------------------------------------------------------------------------
(* The Curator *)

DefaultMinConfidence == Rat(1, 2)
DefaultDedupThreshold == Rat(17, 20)

\* filterInsights(insights, minConfidence)
filterInsights(insights, minConfidence) ==
    LET Passes(insight) ==
            LET confidence == IF Has(insight, "confidence")
                              THEN NumOr(insight.confidence, Zero) ELSE Zero
            IN  Geq(confidence, minConfidence)
    IN  SelectSeq(insights, Passes)

\* validateOperation(op) with the uuid and the date it may draw.
validateOperation(op, uuid, t) ==
    LET opType == Prop(op, "type")
        type == IF opType.t = "word" THEN opType.v ELSE "undefined"
        bullet == Prop(op, "bullet")
        metadata == Prop(bullet, "metadata")
        updates == Prop(op, "updates")
    IN  CASE type = "ADD" /\ Truthy(bullet) ->
               [type |-> type,
                bullet |->
                    [id |-> IF Truthy(Prop(bullet, "id"))
                            THEN Prop(bullet, "id").v ELSE uuid,
                     section |-> StrOr(Prop(bullet, "section"), General),
                     content |-> StrOr(Prop(bullet, "content"), <<>>),
                     metadata |->
                         Spread([created |-> t, helpful_count |-> 0,
                                 harmful_count |-> 0],
                                IF metadata.t = "rec" THEN metadata.v ELSE EmptyObj)]]
          [] type = "UPDATE" /\ Truthy(Prop(op, "bulletId")) ->
               [type |-> type, bulletId |-> Prop(op, "bulletId").v,
                updates |-> IF updates.t = "rec" THEN updates.v ELSE EmptyObj]
          [] type = "DELETE" /\ Truthy(Prop(op, "bulletId")) ->
               [type |-> type, bulletId |-> Prop(op, "bulletId").v]
          [] OTHER -> [type |-> type]

\* Whether validateOperation(op) calls uuidv4().
DrawsUuid(op) ==
    /\ Prop(op, "type") = JWord("ADD")
    /\ Truthy(Prop(op, "bullet"))
    /\ ~Truthy(Prop(Prop(op, "bullet"), "id"))

\* parsed.operations.map(validateOperation), up to the first null element
\* (on which `op.type` throws a TypeError).
RECURSIVE ValidateAll(_, _, _)
ValidateAll(acc, ops, t) ==
    IF ops = <<>> THEN acc
    ELSE IF Head(ops).t = "null" THEN [acc EXCEPT !.threw = TRUE]
    ELSE ValidateAll(
             [acc EXCEPT
                 !.operations = Append(@, validateOperation(Head(ops), acc.next, t)),
                 !.next = IF DrawsUuid(Head(ops)) THEN @ + 1 ELSE @],
             Tail(ops), t)

\* The first stretch that /["']([^"']+)["']/ matches on the line: the first
\* quoted token with something between its quotes.
QuotedAt(line) ==
    {i \in DOMAIN line : line[i].w = "quoted" /\ line[i].content # <<>>}

Quoted(content) ==
    [w |-> "quoted", digits |-> FALSE, num |-> NaN, content |-> content]

\* The loop body of extractOperationsFromText on one line.
ExtractOperation(acc, line, t) ==
    IF Includes(line, "add") /\ Includes(line, "bullet") /\ QuotedAt(line) # {}
    THEN LET i == CHOOSE k \in QuotedAt(line) : \A j \in QuotedAt(line) : k <= j
         IN  [acc EXCEPT
                 !.operations = Append(@,
                     [type |-> "ADD",
                      bullet |-> [id |-> acc.next, section |-> General,
                                  content |-> line[i].content,
                                  metadata |-> [created |-> t, helpful_count |-> 0,
                                                harmful_count |-> 0]]]),
                 !.next = @ + 1]
    ELSE acc

RECURSIVE extractOperationsFromText(_, _, _)
extractOperationsFromText(acc, lines, t) ==
    IF lines = <<>> THEN acc
    ELSE extractOperationsFromText(ExtractOperation(acc, Head(lines), t),
                                   Tail(lines), t)

\* parseOperations(response): [operations, next], next being the uuid
\* counter afterwards.
parseOperations(response, next, t) ==
    LET parsed == response.json
        list == Prop(parsed, "operations")
        start == [operations |-> <<>>, next |-> next, threw |-> FALSE]
        mapped == ValidateAll(start, list.v, t)
    IN  IF parsed.t \notin {"invalid", "null"} /\ list.t = "arr" /\ ~mapped.threw
        THEN mapped
        ELSE extractOperationsFromText(
                 [start EXCEPT !.next =
                     IF parsed.t \notin {"invalid", "null"} /\ list.t = "arr"
                     THEN mapped.next ELSE next],
                 response.lines, t)

\* calculateStatistics(operations)
calculateStatistics(operations) ==
    LET Count(type) == Len(SelectSeq(operations, LAMBDA op : op.type = type))
    IN  [adds |-> Count("ADD"), updates |-> Count("UPDATE"),
         deletes |-> Count("DELETE")]

\* assessDeduplication once its chat call has settled: the recommendation,
\* and which failure, if any, the catch block absorbed.
assessDeduplication(response) ==
    IF response.failed
    THEN [recommendation |-> "keep_separate", failure |-> "assessment call"]
    ELSE IF response.json.t \in {"invalid", "null"}
    THEN [recommendation |-> "keep_separate", failure |-> "assessment parse"]
    ELSE LET r == Prop(response.json, "recommendation")
         IN  [recommendation |-> IF r.t = "word" /\ Truthy(r) THEN r.v
                                 ELSE "keep_separate",
              failure |-> "none"]

Kept(operation) == [kept |-> TRUE, op |-> operation]
Dropped == [kept |-> FALSE]

\* The variant of handleDeduplication that keeps every candidate.
handleDeduplicationKeeping(operation, assessment, similarBullets) == Kept(operation)

\* handleDeduplication(operation, assessment, similarBullets)
handleDeduplication(operation, assessment, similarBullets) ==
    CASE assessment.recommendation = "discard" -> Dropped
      [] assessment.recommendation = "merge" ->
           IF Len(similarBullets) > 0
           THEN LET targetBullet == similarBullets[1]
                IN  Kept([type |-> "UPDATE", bulletId |-> targetBullet.id,
                          updates |-> [content |->
                              targetBullet.content \o <<".", " ">>
                                  \o operation.bullet.content]])
           ELSE Kept(operation)
      [] assessment.recommendation = "update" ->
           IF Len(similarBullets) > 0
           THEN LET targetBullet == similarBullets[1]
                IN  Kept([type |-> "UPDATE", bulletId |-> targetBullet.id,
                          updates |-> [content |-> operation.bullet.content]])
           ELSE Kept(operation)
      [] OTHER -> Kept(operation)

\* new Curator(llmProvider, playbook); hasEmbed tells whether the provider
\* has an embed method.
NewCurator(hasEmbed) ==
    [pc |-> "idle", hasEmbed |-> hasEmbed, insights |-> <<>>,
     options |-> EmptyObj,
     filteredInsights |-> <<>>, parsedOperations |-> <<>>, index |-> 0,
     operations |-> <<>>, embedding |-> <<>>, similarBullets |-> <<>>,
     statistics |-> [adds |-> 0, updates |-> 0, deletes |-> 0],
     log |-> <<>>, embeds |-> 0, chats |-> 0, error |-> "none"]

\* curate returns {operations, summary, statistics}.
CurateReturn(c) ==
    [c EXCEPT !.pc = "returned",
              !.statistics = calculateStatistics(c.operations)]

\* The catch block of curate.
CurateCatch(c, rejection) ==
    [c EXCEPT !.pc = "thrown",
              !.error = IF rejection.ace THEN "ACEError" ELSE "CuratorError(cause)"]

\* `options.enableDeduplication !== false`
NotDisabled(options) ==
    ~(Has(options, "enableDeduplication") /\ options.enableDeduplication = FALSE)

\* `options.enableDeduplication && this.llmProvider.embed`, and the variant
\* that takes an omitted option for an enabled one.
DedupGateUnlessDisabled(options, hasEmbed) == NotDisabled(options) /\ hasEmbed
DedupGate(options, hasEmbed) ==
    /\ Has(options, "enableDeduplication")
    /\ options.enableDeduplication
    /\ hasEmbed

\* What the loop of generateDeltaOperations did with one operation: whether
\* embed returned and what, the bullets findSimilarBullets returned, the
\* recommendation assessDeduplication returned, the failure a catch block
\* absorbed, and the operation pushed (if any).
LogEntry(operation, embedded, embedding, similar, recommendation, failure, result) ==
    [operation |-> operation, embedded |-> embedded, embedding |-> embedding,
     similar |-> similar, recommendation |-> recommendation,
     failure |-> failure, result |-> result]

\* The loop moves on after pushing `result` (unless it is null).
Processed(c, entry) ==
    [c EXCEPT !.operations = IF entry.result.kept THEN Append(@, entry.result.op)
                             ELSE @,
              !.log = Append(@, entry),
              !.embedding = <<>>,
              !.similarBullets = <<>>,
              !.index = @ + 1]

Untouched(operation) ==
    LogEntry(operation, FALSE, <<>>, <<>>, "none", "none", Kept(operation))

RECURSIVE ForLoop(_)

\* The catch block of processAddOperation: the operation is returned as it
\* is and the loop goes on.  The first definition is the variant that passes
\* the error on to curate.
DedupCheckFailedRethrowing(c, embedded, embedding, failure) ==
    [c EXCEPT !.pc = "thrown", !.error = "CuratorError(cause)"]

DedupCheckFailed(c, embedded, embedding, failure) ==
    ForLoop(Processed(c,
        LogEntry(c.parsedOperations[c.index], embedded, embedding, <<>>,
                 "none", failure, Kept(c.parsedOperations[c.index]))))

\* The loop of generateDeltaOperations, from the operation at c.index to
\* the next await or to the return.
ForLoop(c) ==
    IF c.index > Len(c.parsedOperations) THEN CurateReturn(c)
    ELSE LET operation == c.parsedOperations[c.index]
         IN  IF /\ operation.type = "ADD"
                /\ NotDisabled(c.options)
                /\ Has(operation, "bullet")
                /\ DedupGate(c.options, c.hasEmbed)
             THEN [c EXCEPT !.pc = "embed", !.embeds = @ + 1]
             ELSE ForLoop(Processed(c, Untouched(operation)))

\* curate(insights, options) up to its first await.
curate(c, insights, options) ==
    LET called == [NewCurator(c.hasEmbed) EXCEPT !.insights = insights,
                                                 !.options = options]
        minConfidence == IF Has(options, "minConfidence")
                         THEN options.minConfidence ELSE DefaultMinConfidence
        filteredInsights == filterInsights(insights, minConfidence)
    IN  IF Len(insights) = 0 \/ Len(filteredInsights) = 0
        THEN [called EXCEPT !.pc = "returned"]
        ELSE [called EXCEPT !.pc = "synthesis", !.chats = 1,
                            !.filteredInsights = filteredInsights]

\* generateDeltaOperations without the fallback to text extraction: a
\* response that is not JSON makes the call throw.
SynthesisResumesStrict(c, response, next, t) ==
    IF response.failed \/ response.json.t = "invalid"
    THEN CurateCatch(c, Rejection(FALSE))
    ELSE ForLoop([c EXCEPT
             !.parsedOperations = parseOperations(response, next, t).operations,
             !.index = 1])

\* generateDeltaOperations resumes with the synthesis response.
SynthesisResumes(c, response, next, t) ==
    IF response.failed THEN CurateCatch(c, response)
    ELSE ForLoop([c EXCEPT
             !.parsedOperations = parseOperations(response, next, t).operations,
             !.index = 1])

\* processAddOperation resumes with the outcome of embed.
EmbedResumes(c, outcome, bs) ==
    IF outcome.failed THEN DedupCheckFailed(c, FALSE, <<>>, "embed")
    ELSE LET threshold == RatOr(c.options, "dedupThreshold", DefaultDedupThreshold)
             found == findSimilarBullets(bs, outcome.embedding, threshold)
         IN  IF found.threw
             THEN DedupCheckFailed(c, TRUE, outcome.embedding, "search")
             ELSE IF Len(found.similar) > 0
             THEN [c EXCEPT !.pc = "dedup", !.chats = @ + 1,
                            !.embedding = outcome.embedding,
                            !.similarBullets = found.similar]
             ELSE ForLoop(Processed(c,
                      LogEntry(c.parsedOperations[c.index], TRUE,
                               outcome.embedding, <<>>, "none", "none",
                               Kept(c.parsedOperations[c.index]))))

\* assessDeduplication resumes with the chat response.
DedupResumes(c, response) ==
    LET operation == c.parsedOperations[c.index]
        assessment == assessDeduplication(response)
    IN  ForLoop(Processed(c,
            LogEntry(operation, TRUE, c.embedding, c.similarBullets,
                     assessment.recommendation, assessment.failure,
                     handleDeduplication(operation, assessment, c.similarBullets))))

----------------------------------------------------------------------------
(* The Generator.  The text of a response is a sequence of tokens: the     *)
(* words of the answer, the header of the tracking section, the blank line *)
(* that ends a paragraph, and the markers #helpful-<id> and #harmful-<id>. *)

DefaultMaxBullets == 20

TrackingHeader == "BULLET TRACKING:"
BlankLine == "\n\n"
HelpfulMarker == "#helpful-"
HarmfulMarker == "#harmful-"

\* A marker followed by the id it names; id 0 is a marker with no id
\* character after the dash.
Marker(kind, id) == [w |-> kind, id |-> id]

\* The first position at or after i whose token is `w`, or 0.
RECURSIVE TokenAt(_, _, _)
TokenAt(text, w, i) ==
    IF i > Len(text) THEN 0
    ELSE IF text[i].w = w THEN i ELSE TokenAt(text, w, i + 1)

\* String.prototype.match with /#kind-([a-zA-Z0-9-]+)/g, each match stripped
\* of the prefix: the ids of the markers of this kind, in order.
RECURSIVE MarkerIds(_, _)
MarkerIds(section, kind) ==
    IF section = <<>> THEN <<>>
    ELSE LET token == Head(section)
             rest == MarkerIds(Tail(section), kind)
         IN  IF token.w = kind /\ token.id # 0 THEN <<token.id>> \o rest
             ELSE rest

\* The capture group of /BULLET TRACKING:([\s\S]*?)(?:\n\n|$)/i: what
\* follows the first header, up to the first blank line or the end.
TrackingSection(response) ==
    LET header == TokenAt(response, TrackingHeader, 1)
        blank == TokenAt(response, BlankLine, header + 1)
    IN  IF blank = 0 THEN SubSeq(response, header + 1, Len(response))
        ELSE SubSeq(response, header + 1, blank - 1)

\* extractBulletTracking(response)
extractBulletTracking(response) ==
    IF TokenAt(response, TrackingHeader, 1) = 0
    THEN [helpful |-> <<>>, harmful |-> <<>>]
    ELSE [helpful |-> MarkerIds(TrackingSection(response), HelpfulMarker),
          harmful |-> MarkerIds(TrackingSection(response), HarmfulMarker)]

\* Generator.calculateHelpfulnessRatio(bullet)
calculateHelpfulnessRatio(bullet) ==
    LET total == bullet.metadata.helpful_count + bullet.metadata.harmful_count
    IN  IF total = 0 THEN Rat(1, 2)
        ELSE Rat(bullet.metadata.helpful_count, total)

\* prioritySections.includes(section) ? 1 : 0
Priority(prioritySections, bullet) ==
    IF \E i \in DOMAIN prioritySections : prioritySections[i] = bullet.section
    THEN 1 ELSE 0

\* bullet.metadata.last_used?.getTime() || 0
UsedTime(bullet) ==
    IF Has(bullet.metadata, "last_used") THEN bullet.metadata.last_used ELSE 0

\* The comparator with the ratio step left out.
SortsBeforeIgnoringRatio(prioritySections, a, b) ==
    LET aPriority == Priority(prioritySections, a)
        bPriority == Priority(prioritySections, b)
    IN  IF aPriority # bPriority THEN bPriority - aPriority < 0
        ELSE UsedTime(b) - UsedTime(a) < 0

\* The comparator of selectBullets returns a negative number: a goes
\* before b.
SortsBefore(prioritySections, a, b) ==
    LET aPriority == Priority(prioritySections, a)
        bPriority == Priority(prioritySections, b)
        aRatio == calculateHelpfulnessRatio(a)
        bRatio == calculateHelpfulnessRatio(b)
    IN  IF aPriority # bPriority THEN bPriority - aPriority < 0
        ELSE IF aRatio # bRatio THEN Less(bRatio, aRatio)
        ELSE UsedTime(b) - UsedTime(a) < 0

\* Array.prototype.sort with that comparator.  The sort is stable: a bullet
\* goes before the first one it sorts before, and after its equals.
RECURSIVE InsertByRank(_, _, _)
InsertByRank(prioritySections, sorted, bullet) ==
    IF sorted = <<>> THEN <<bullet>>
    ELSE IF SortsBefore(prioritySections, bullet, Head(sorted))
         THEN <<bullet>> \o sorted
         ELSE <<Head(sorted)>>
                  \o InsertByRank(prioritySections, Tail(sorted), bullet)

RECURSIVE SortByRank(_, _)
SortByRank(prioritySections, list) ==
    IF list = <<>> THEN <<>>
    ELSE InsertByRank(prioritySections,
                      SortByRank(prioritySections,
                                 SubSeq(list, 1, Len(list) - 1)),
                      list[Len(list)])

\* slice(0, end - 1): the slice that stops one short.
SliceBefore(list, end) ==
    SubSeq(list, 1, IF end - 1 > Len(list) THEN Len(list) ELSE end - 1)

\* Array.prototype.slice(0, end): a negative end counts from the back.
SliceTo(list, end) ==
    LET stop == IF end < 0 THEN IF Len(list) + end < 0 THEN 0
                                ELSE Len(list) + end
                ELSE IF end > Len(list) THEN Len(list) ELSE end
    IN  SubSeq(list, 1, stop)

\* Generator.selectBullets(options)
selectBullets(bs, options) ==
    LET maxBullets == IntOr(options, "maxBullets", DefaultMaxBullets)
        prioritySections == IF Has(options, "prioritySections")
                            THEN options.prioritySections ELSE <<>>
        sorted == SortByRank(prioritySections, MapValues(bs))
        selectedBullets == SliceTo(sorted, maxBullets)
    IN  [i \in DOMAIN selectedBullets |->
            [id |-> selectedBullets[i].id,
             section |-> selectedBullets[i].section,
             content |-> selectedBullets[i].content]]

\* A Generator on the Playbook, with no call in progress.
NewGenerator ==
    [pc |-> "idle", query |-> <<>>, options |-> EmptyObj,
     selectedBullets |-> <<>>, trajectory |-> EmptyObj, chats |-> 0,
     error |-> "none"]

\* A catch block that asks the Gateway again instead of giving up.
GenerateCatchRetrying(g, rejection) ==
    [g EXCEPT !.pc = "chat", !.chats = g.chats + 1]

\* The catch block of generate: an ACEError is rethrown as it is, anything
\* else is wrapped in a GeneratorError that carries it as cause.
GenerateCatch(g, rejection) ==
    [g EXCEPT !.pc = "thrown",
              !.error = IF rejection.ace THEN "ACEError"
                        ELSE "GeneratorError(cause)"]

\* generate testing `!query` in place of `!query.trim()`: a query of blanks
\* goes on to the chat call.
generateUntrimmed(g, bs, query, options) ==
    IF query = <<>>
    THEN [g EXCEPT !.pc = "thrown", !.query = query, !.options = options,
                   !.selectedBullets = <<>>, !.trajectory = EmptyObj,
                   !.chats = 0, !.error = "GeneratorError"]
    ELSE [g EXCEPT !.pc = "chat", !.query = query, !.options = options,
                   !.selectedBullets = selectBullets(bs, options),
                   !.trajectory = EmptyObj,
                   !.chats = 1, !.error = "none"]

\* Generator.generate(query, options) up to its await of llmProvider.chat.
generate(g, bs, query, options) ==
    IF Trim(query) = <<>>
    THEN [g EXCEPT !.pc = "thrown", !.query = query, !.options = options,
                   !.selectedBullets = <<>>, !.trajectory = EmptyObj,
                   !.chats = 0, !.error = "GeneratorError"]
    ELSE [g EXCEPT !.pc = "chat", !.query = query, !.options = options,
                   !.selectedBullets = selectBullets(bs, options),
                   !.trajectory = EmptyObj,
                   !.chats = 1, !.error = "none"]

\* The trajectory generate builds from the response.
TrajectoryOf(g, response, t) ==
    LET bulletTracking == extractBulletTracking(response)
    IN  [query |-> g.query,
         response |-> response,
         bullets_used |-> [i \in DOMAIN g.selectedBullets |->
                              g.selectedBullets[i].id],
         bullets_helpful |-> bulletTracking.helpful,
         bullets_harmful |-> bulletTracking.harmful,
         metadata |-> [timestamp |-> t]]

\* generate recording only the helpful ids of the response.
RecordTrackingHelpfulOnly(bs, response, t) ==
    LET bulletTracking == extractBulletTracking(response)
    IN  IF Len(bulletTracking.helpful) > 0
        THEN updateBulletFeedback(bs, bulletTracking.helpful, "helpful", t)
        ELSE bs

\* generate stamping last_used on every stored bullet, attributed or not.
RecordTrackingStampingAll(bs, response, t) ==
    LET bulletTracking == extractBulletTracking(response)
        helped == updateBulletFeedback(bs, bulletTracking.helpful, "helpful", t)
        harmed == updateBulletFeedback(helped, bulletTracking.harmful, "harmful", t)
    IN  [i \in 1..Len(harmed) |->
            [harmed[i] EXCEPT !.val.metadata = Spread(@, [last_used |-> t])]]

\* The Playbook after generate has recorded the feedback of the response:
\* the helpful ids first, then the harmful ones.
RecordTracking(bs, response, t) ==
    LET bulletTracking == extractBulletTracking(response)
        helped == IF Len(bulletTracking.helpful) > 0
                  THEN updateBulletFeedback(bs, bulletTracking.helpful,
                                            "helpful", t)
                  ELSE bs
    IN  IF Len(bulletTracking.harmful) > 0
        THEN updateBulletFeedback(helped, bulletTracking.harmful, "harmful", t)
        ELSE helped

\* generate resumes with the response of llmProvider.chat.
GenerationResumes(g, response, t) ==
    IF response.failed THEN GenerateCatch(g, response)
    ELSE [g EXCEPT !.pc = "returned",
                   !.trajectory = TrajectoryOf(g, response.lines, t)]

----------------------------------------------------------------------------
(* Playbook.searchBullets *)

DefaultLimit == 10
DefaultMinSimilarity == Rat(1, 2)

\* String.prototype.toLowerCase, over the letters the model writes.
LowerOf(c) == CASE c = "A" -> "a" [] c = "B" -> "b" [] OTHER -> c
toLowerCase(s) == [i \in DOMAIN s |-> LowerOf(s[i])]

\* String.prototype.includes
StringIncludes(s, q) ==
    \E i \in 0..(Len(s) - Len(q)) : SubSeq(s, i + 1, i + Len(q)) = q

\* The body of the loop for one bullet: the result it pushes, if any.  The
\* branch for `use_embeddings && bullet.metadata.embedding` has no statement
\* in it.
MatchOf(bullet, query, use_embeddings) ==
    LET queryLower == toLowerCase(query)
        contentLower == toLowerCase(bullet.content)
    IN  IF contentLower = queryLower
        THEN <<[bullet |-> bullet, score |-> One, match_type |-> "exact"]>>
        ELSE IF StringIncludes(contentLower, queryLower)
        THEN <<[bullet |-> bullet,
                score |-> MathMin(Rat(2 * Len(queryLower), Len(contentLower)),
                                  Rat(9, 10)),
                match_type |-> "substring"]>>
        ELSE IF use_embeddings /\ Has(bullet.metadata, "embedding")
        THEN <<>>
        ELSE <<>>

\* results.sort((a, b) => b.score - a.score) left out: the results stay in
\* the order the loop pushed them.
InsertByScoreAppending(sorted, result) == Append(sorted, result)

\* results.sort((a, b) => b.score - a.score).  The sort is stable: a result
\* goes before the first one with a lower score.
RECURSIVE InsertByScore(_, _)
InsertByScore(sorted, result) ==
    IF sorted = <<>> THEN <<result>>
    ELSE IF Less(Head(sorted).score, result.score)
         THEN <<result>> \o sorted
         ELSE <<Head(sorted)>> \o InsertByScore(Tail(sorted), result)

RECURSIVE SortByScore(_)
SortByScore(results) ==
    IF results = <<>> THEN <<>>
    ELSE InsertByScore(SortByScore(SubSeq(results, 1, Len(results) - 1)),
                       results[Len(results)])

\* Playbook.searchBullets(options)
searchBullets(bs, options) ==
    LET query == options.query
        limit == IF Has(options, "limit") THEN options.limit ELSE DefaultLimit
        use_embeddings == IF Has(options, "use_embeddings")
                          THEN options.use_embeddings ELSE FALSE
        min_similarity == IF Has(options, "min_similarity")
                          THEN options.min_similarity ELSE DefaultMinSimilarity
        values == MapValues(bs)
        Pushed[k \in 0..Len(values)] ==
            IF k = 0 THEN <<>>
            ELSE Pushed[k - 1] \o MatchOf(values[k], query, use_embeddings)
        results == SortByScore(Pushed[Len(values)])
        AtLeast(r) == Geq(r.score, min_similarity)
        filtered == SelectSeq(results, AtLeast)
    IN  SliceTo(filtered, limit)

----------------------------------------------------------------------------
(* Inputs of the Playbook calls *)

\* A Bullet as the type declares it, made at time t.
TypedBullet(id, section, content, t) ==
    [id |-> id, section |-> section, content |-> content,
     metadata |-> [created |-> t, helpful_count |-> 0, harmful_count |-> 0]]

\* (section, content, metadata) arguments of addBullet: well-formed ones, and
\* ones with an empty or blank section or content.
AddInputs ==
    {<<<<"S">>, <<"a">>, EmptyObj>>,
     <<<<"S">>, <<" ", "b">>, [helpful_count |-> 1]>>,
     <<<<" ">>, <<"a">>, EmptyObj>>,
     <<<<>>, <<"a">>, EmptyObj>>,
     <<<<"S">>, <<" ">>, EmptyObj>>}

UpdateInputs ==
    {[content |-> <<"c">>],
     [content |-> <<" ">>],
     [id |-> ForeignId, section |-> <<"T">>],
     [section |-> <<" ">>],
     [metadata |-> [helpful_count |-> 0, harmful_count |-> 0]]}

\* Sequences over S of length at most n.
RECURSIVE SeqsUpTo(_, _)
SeqsUpTo(S, n) ==
    IF n = 0 THEN {<<>>}
    ELSE LET shorter == SeqsUpTo(S, n - 1)
         IN  shorter \cup {Append(q, x) : q \in shorter, x \in S}

\* The ids the calls of SpecStore name: the first bullet's and the made-up
\* one; any other bullet is a bystander.
TargetIds == {1, ForeignId}

\* The id lists of a feedback call: one id, one id twice, or two ids.
FeedbackLists ==
    {<<1>>, <<ForeignId>>, <<1, 1>>, <<1, ForeignId>>, <<ForeignId, 1>>}

\* The delta operations SpecStore draws its batches from: additions with and
\* without an id, an operation lacking its payload, and an update and a
\* delete of the first bullet.
StoreOperations(next, t) ==
    {[type |-> "ADD", bullet |-> TypedBullet(0, <<"S">>, <<"n">>, t)],
     [type |-> "ADD"],
     [type |-> "DELETE", bulletId |-> 1],
     [type |-> "UPDATE", bulletId |-> 1, updates |-> [content |-> <<"c">>]]}
    \cup {[type |-> "ADD", bullet |-> TypedBullet(i, <<"S">>, <<"n">>, t)] :
             i \in TargetIds \cap KnownIds(next)}

\* Bullet lists handed to import.
ImportLists(t) ==
    {<<>>,
     <<TypedBullet(ForeignId, <<"S">>, <<"a">>, t)>>,
     <<TypedBullet(ForeignId, <<"S">>, <<"a">>, t), [id |-> 1, section |-> <<"S">>]>>,
     <<[section |-> <<"S">>, content |-> <<"a">>,
        metadata |-> [created |-> t, helpful_count |-> 0, harmful_count |-> 0]],
       [id |-> 1, content |-> <<"a">>,
        metadata |-> [created |-> t, helpful_count |-> 0, harmful_count |-> 0]],
       TypedBullet(ForeignId, <<"S">>, <<"a">>, t),
       [id |-> 1, section |-> <<"S">>, content |-> <<"a">>]>>}

\* Every counter is within the model's cut-off.
CountersWithin(bs) ==
    \A i \in 1..Len(bs) :
        /\ bs[i].val.metadata.helpful_count <= MaxCount
        /\ bs[i].val.metadata.harmful_count <= MaxCount

----------------------------------------------------------------------------
(* SpecStore: any sequence of Playbook calls on one Playbook *)

InitStore ==
    /\ bullets = <<>>
    /\ nextUuid = 1
    /\ now = 0
    /\ lastOp = [kind |-> "new"]
    /\ steps = 0
    /\ reflection = NewReflector(DefaultMaxIterations)
    /\ curation = NewCurator(TRUE)
    /\ generation = NewGenerator

AddBulletOf(in) ==
    LET r == addBullet(bullets, in[1], in[2], in[3], nextUuid, now)
    IN  /\ steps < MaxSteps
        /\ nextUuid <= MaxUuid
        /\ bullets' = r.bullets
        /\ nextUuid' = IF r.threw THEN nextUuid ELSE nextUuid + 1
        /\ lastOp' = [kind |-> "addBullet", threw |-> r.threw, id |-> r.ret,
                      message |-> r.message]
        /\ steps' = steps + 1
        /\ UNCHANGED outsideStore
        /\ UNCHANGED now

AddBullet == steps < MaxSteps /\ \E in \in AddInputs : AddBulletOf(in)

UpdateBulletOf(id, updates) ==
    LET r == updateBullet(bullets, id, updates)
    IN  /\ steps < MaxSteps
        /\ bullets' = r.bullets
        /\ lastOp' = [kind |-> "updateBullet", threw |-> r.threw, id |-> id,
                      message |-> r.message]
        /\ steps' = steps + 1
        /\ UNCHANGED outsideStore
        /\ UNCHANGED <<nextUuid, now>>

UpdateBullet ==
    /\ steps < MaxSteps
    /\ \E id \in TargetIds, updates \in UpdateInputs : UpdateBulletOf(id, updates)

DeleteBulletOf(id) ==
    LET r == deleteBullet(bullets, id)
    IN  /\ steps < MaxSteps
        /\ bullets' = r.bullets
        /\ lastOp' = [kind |-> "deleteBullet", threw |-> FALSE, id |-> id,
                      ret |-> r.ret]
        /\ steps' = steps + 1
        /\ UNCHANGED outsideStore
        /\ UNCHANGED <<nextUuid, now>>

DeleteBullet == steps < MaxSteps /\ \E id \in TargetIds : DeleteBulletOf(id)

RecordFeedbackOf(ids, type) ==
    LET after == updateBulletFeedback(bullets, ids, type, now)
    IN  /\ steps < MaxSteps
        /\ CountersWithin(after)
        /\ bullets' = after
        /\ lastOp' = [kind |-> "updateBulletFeedback", threw |-> FALSE,
                      ids |-> ids, type |-> type]
        /\ steps' = steps + 1
        /\ UNCHANGED outsideStore
        /\ UNCHANGED <<nextUuid, now>>

RecordFeedback ==
    /\ steps < MaxSteps
    /\ \E ids \in FeedbackLists, type \in {"helpful", "harmful"} :
           RecordFeedbackOf(ids, type)

ApplyDeltasOf(operations) ==
    LET st == applyDeltas(bullets, nextUuid, operations)
    IN  /\ steps < MaxSteps
        /\ nextUuid + UuidDemand(operations) <= MaxUuid + 1
        /\ bullets' = st.bullets
        /\ nextUuid' = st.next
        /\ lastOp' = [kind |-> "applyDeltas", threw |-> FALSE,
                      operations |-> operations,
                      results |-> [added |-> st.added, updated |-> st.updated,
                                   deleted |-> st.deleted, errors |-> st.errors]]
        /\ steps' = steps + 1
        /\ UNCHANGED outsideStore
        /\ UNCHANGED now

ApplyDeltas ==
    /\ steps < MaxSteps
    /\ \E operations \in SeqsUpTo(StoreOperations(nextUuid, now), MaxStoreOps) :
           ApplyDeltasOf(operations)

Clear ==
    /\ steps < MaxSteps
    /\ bullets' = clear(bullets)
    /\ lastOp' = [kind |-> "clear", threw |-> FALSE]
    /\ steps' = steps + 1
    /\ UNCHANGED outsideStore
    /\ UNCHANGED <<nextUuid, now>>

ImportOf(list) ==
    /\ steps < MaxSteps
    /\ bullets' = import(bullets, list)
    /\ lastOp' = [kind |-> "import", threw |-> FALSE]
    /\ steps' = steps + 1
    /\ UNCHANGED outsideStore
    /\ UNCHANGED <<nextUuid, now>>

Import == steps < MaxSteps /\ \E list \in ImportLists(now) : ImportOf(list)

\* Time passes between calls.
Tick ==
    /\ steps < MaxSteps
    /\ now < MaxTime
    /\ now' = now + 1
    /\ lastOp' = [kind |-> "tick", threw |-> FALSE]
    /\ steps' = steps + 1
    /\ UNCHANGED outsideStore
    /\ UNCHANGED <<bullets, nextUuid>>

NextStore ==
    \/ AddBullet
    \/ UpdateBullet
    \/ DeleteBullet
    \/ RecordFeedback
    \/ ApplyDeltas
    \/ Clear
    \/ Import
    \/ Tick

SpecStore == InitStore /\ [][NextStore]_vars

----------------------------------------------------------------------------
(* SpecDeltas: one delta batch applied to a Playbook that addBullet seeded *)

\* The operations a batch is drawn from: two that succeed whenever their
\* target exists or is new, and one for each way the switch can throw.
DeltaOperations(t) ==
    {[type |-> "ADD", bullet |-> TypedBullet(0, <<"S">>, <<"n">>, t)],
     [type |-> "ADD", bullet |-> TypedBullet(0, <<"S">>, <<" ">>, t)],
     [type |-> "ADD"],
     [type |-> "UPDATE", bulletId |-> 1, updates |-> [content |-> <<"c">>]],
     [type |-> "UPDATE", bulletId |-> 1, updates |-> [content |-> <<" ">>]],
     [type |-> "DELETE", bulletId |-> 1],
     [type |-> "DELETE"],
     [type |-> "MERGE", bulletId |-> 1]}

SeedBullet ==
    LET r == addBullet(bullets, <<"S">>, <<"a">>, EmptyObj, nextUuid, now)
    IN  /\ lastOp.kind # "applyDeltas"
        /\ nextUuid <= MaxUuid
        /\ ~r.threw
        /\ bullets' = r.bullets
        /\ nextUuid' = nextUuid + 1
        /\ lastOp' = [kind |-> "addBullet", threw |-> FALSE, id |-> r.ret]
        /\ steps' = steps + 1
        /\ UNCHANGED outsideStore
        /\ UNCHANGED now

DeltaBatchOf(operations) ==
    LET st == applyDeltas(bullets, nextUuid, operations)
    IN  /\ lastOp.kind # "applyDeltas"
        /\ nextUuid + UuidDemand(operations) <= MaxUuid + 1
        /\ bullets' = st.bullets
        /\ nextUuid' = st.next
        /\ lastOp' = [kind |-> "applyDeltas", threw |-> FALSE,
                      operations |-> operations,
                      before |-> bullets, beforeNext |-> nextUuid,
                      results |-> [added |-> st.added, updated |-> st.updated,
                                   deleted |-> st.deleted, errors |-> st.errors]]
        /\ steps' = steps + 1
        /\ UNCHANGED outsideStore
        /\ UNCHANGED now

DeltaBatch ==
    /\ lastOp.kind # "applyDeltas"
    /\ \E operations \in SeqsUpTo(DeltaOperations(now), MaxOps) :
           DeltaBatchOf(operations)

NextDeltas ==
    \/ SeedBullet
    \/ DeltaBatch

SpecDeltas == InitStore /\ [][NextDeltas]_vars

----------------------------------------------------------------------------
(* SpecReflect: reflect() calls on one Reflector, one at a time *)

MaxIterationsOption == 3        \* largest options.maxIterations passed

ConstructorInputs == {DefaultMaxIterations, 0}

OptionInputs ==
    LET iters == {EmptyObj} \cup {[maxIterations |-> m] : m \in -1..MaxIterationsOption}
        thresholds == {EmptyObj, [qualityThreshold |-> Zero],
                       [qualityThreshold |-> Rat(1, 2)]}
    IN  {Spread(i, t) : i \in iters, t \in thresholds}

TrajectoryInputs ==
    {[query |-> <<"q">>, response |-> <<"r">>],
     [query |-> <<>>, response |-> <<"r">>],
     [query |-> <<"q">>, response |-> <<>>]}

InsightJson(observation, confidence) ==
    JObj([observation |-> JStr(<<observation>>, NaN),
          lesson |-> JStr(<<"l">>, NaN),
          suggested_bullet |-> JStr(<<"b">>, NaN),
          confidence |-> confidence])

RejectionInputs == {Rejection(TRUE), Rejection(FALSE)}

\* What an analysis or refinement chat call can come back with.
InsightResponses ==
    {Response(JObj([insights |-> JArr(<<InsightJson("o", JNum(Rat(9, 10)))>>)]),
              <<>>),
     Response(JObj([insights |-> JArr(<<InsightJson("p", JNum(Rat(2, 5))),
                                        JObj([section |-> JStr(<<"S">>, NaN)])>>)]),
              <<>>),
     Response(JObj([insights |-> JArr(<<InsightJson("h", JStr(<<"high">>, NaN))>>)]),
              <<>>),
     Response(JObj([insights |-> JArr(<<>>)]), <<>>),
     Response(JNull, <<<<Word("null")>>>>),
     Response(JObj([insights |-> JArr(<<JNull>>)]), <<<<Word("{}")>>>>),
     Response(JInvalid,
              <<<<Word("observation:"), Word("t")>>,
                <<Word("lesson:"), Word("l")>>,
                <<Word("suggested_bullet:"), Word("b")>>,
                <<Word("confidence:"), Digits("1.5", Rat(3, 2))>>>>),
     Response(JInvalid,
              <<<<Word("observation:"), Word("u")>>,
                <<Word("confidence:"), Word("high")>>,
                <<Word("observation:"), Word("v")>>,
                <<Word("the"), Word("lesson:"), Word("l")>>,
                <<Word("section:"), Word("S")>>,
                <<Word("suggested_bullet:"), Word("b")>>,
                <<Word("confidence:"), Digits(".", NaN)>>>>),
     Response(JInvalid, <<<<Word("sorry")>>>>)}
    \cup RejectionInputs

\* What a quality-assessment chat call can come back with.
AssessmentResponses ==
    {Response(JObj([overall_quality |-> JNum(Rat(9, 10)),
                    should_refine |-> JBool(TRUE)]), <<>>),
     Response(JObj([overall_quality |-> JNum(Rat(3, 10)),
                    should_refine |-> JBool(FALSE)]), <<>>),
     Response(JObj([overall_quality |-> JNum(Rat(3, 5))]), <<>>),
     Response(JObj([overall_quality |-> JNum(Rat(17, 10)),
                    should_refine |-> JBool(TRUE)]), <<>>),
     Response(JObj([overall_quality |-> JStr(<<"high">>, NaN)]), <<>>),
     Response(JObj(EmptyObj), <<>>),
     Response(JNull, <<>>),
     Response(JInvalid, <<>>)}
    \cup RejectionInputs

InitReflect ==
    /\ bullets = <<>>
    /\ nextUuid = 1
    /\ now = 0
    /\ lastOp = [kind |-> "new"]
    /\ steps = 0
    /\ reflection \in {NewReflector(m) : m \in ConstructorInputs}
    /\ curation = NewCurator(TRUE)
    /\ generation = NewGenerator

Reflect ==
    /\ reflection.pc \in {"idle", "returned", "thrown"}
    /\ \E trajectory \in TrajectoryInputs, options \in OptionInputs :
           reflection' = reflect(reflection, trajectory, options)
    /\ UNCHANGED outsideReflect

AnalysisReturns ==
    /\ reflection.pc = "analysis"
    /\ \E response \in InsightResponses :
           reflection' = AnalysisResumes(reflection, response)
    /\ UNCHANGED outsideReflect

AssessmentReturns ==
    /\ reflection.pc = "assess"
    /\ \E response \in AssessmentResponses :
           reflection' = AssessmentResumes(reflection, response)
    /\ UNCHANGED outsideReflect

RefinementReturns ==
    /\ reflection.pc = "refine"
    /\ \E response \in InsightResponses :
           reflection' = RefinementResumes(reflection, response)
    /\ UNCHANGED outsideReflect

NextReflect ==
    \/ Reflect
    \/ AnalysisReturns
    \/ AssessmentReturns
    \/ RefinementReturns

SpecReflect == InitReflect /\ [][NextReflect]_vars

----------------------------------------------------------------------------
(* SpecCurate: one curate() call on a Playbook that addBullet filled *)

MaxOperations == 2      \* operations in one synthesis response

\* (content, embedding) of the bullets the Playbook holds; <<>> stands for a
\* bullet without an embedding.
SeedInputs ==
    {<<>>,
     <<<<"a", <<1, 0>>>>>>,
     <<<<"b", <<1, 1>>>>, <<"a", <<1, 0>>>>>>,
     <<<<"a", <<1, 0>>>>, <<"c", <<>>>>>>,
     <<<<"a", <<1, 0>>>>, <<"d", <<1, 0, 0>>>>>>}

RECURSIVE Seeded(_, _)
Seeded(bs, seeds) ==
    IF seeds = <<>> THEN bs
    ELSE Seeded(addBullet(bs, <<"S">>, <<Head(seeds)[1]>>,
                          IF Head(seeds)[2] = <<>> THEN EmptyObj
                          ELSE [embedding |-> Head(seeds)[2]],
                          Len(bs) + 1, 0).bullets,
                Tail(seeds))

CuratedInsight(confidence) ==
    [observation |-> <<"o">>, lesson |-> <<"l">>, suggested_bullet |-> <<"b">>,
     confidence |-> confidence, section |-> General]

\* An insight whose confidence is undefined.
UnratedInsight ==
    [observation |-> <<"o">>, lesson |-> <<"l">>, suggested_bullet |-> <<"b">>,
     section |-> General]

InsightInputs ==
    {<<>>,
     <<CuratedInsight(Rat(3, 10))>>,
     <<CuratedInsight(Rat(9, 10)), CuratedInsight(NaN)>>,
     <<UnratedInsight, CuratedInsight(Zero)>>,
     <<UnratedInsight>>}

CurationOptionInputs ==
    {EmptyObj,
     [enableDeduplication |-> FALSE],
     [enableDeduplication |-> TRUE],
     [enableDeduplication |-> TRUE, dedupThreshold |-> Rat(9, 10)],
     [enableDeduplication |-> TRUE, dedupThreshold |-> Zero,
      minConfidence |-> Zero]}

AddJson(content) ==
    JObj([type |-> JWord("ADD"),
          bullet |-> JObj([section |-> JStr(<<"S">>, NaN),
                           content |-> JStr(<<content>>, NaN)])])

\* The operations a synthesis response is made of.
OperationJsons ==
    {AddJson("n"),
     AddJson("m"),
     JObj([type |-> JWord("ADD")]),
     JObj([type |-> JWord("UPDATE"), bulletId |-> JId(1),
           updates |-> JRecord([content |-> <<"u">>])]),
     JObj([type |-> JWord("DELETE"), bulletId |-> JId(1)]),
     JObj([type |-> JWord("MERGE"), bulletId |-> JId(1)]),
     JNull}

\* What the synthesis chat call can come back with.
SynthesisResponses ==
    {Response(JObj([operations |-> JArr(ops)]),
              <<<<Word("add"), Word("bullet"), Quoted(<<>>), Quoted(<<"t">>)>>>>) :
        ops \in SeqsUpTo(OperationJsons, MaxOperations)}
    \cup {Response(JInvalid, <<<<Word("nothing"), Word("to"), Word("add")>>>>),
          Response(JObj(EmptyObj), <<>>)}
    \cup RejectionInputs

\* What embed can come back with.
EmbedOutcomes ==
    {[failed |-> FALSE, embedding |-> e] : e \in {<<3, 1>>, <<0, 1>>, <<0, 0>>}}
    \cup RejectionInputs

\* What the deduplication-assessment chat call can come back with.
DedupResponses ==
    {Response(JObj([recommendation |-> JWord(r)]), <<>>) :
        r \in {"discard", "merge", "update", "keep_separate", "replace"}}
    \cup {Response(JObj(EmptyObj), <<>>), Response(JNull, <<>>),
          Response(JInvalid, <<>>)}
    \cup RejectionInputs

InitCurate ==
    /\ bullets \in {Seeded(<<>>, seeds) : seeds \in SeedInputs}
    /\ nextUuid = Len(bullets) + 1
    /\ now = 0
    /\ lastOp = [kind |-> "new"]
    /\ steps = 0
    /\ reflection = NewReflector(DefaultMaxIterations)
    /\ curation \in {NewCurator(hasEmbed) : hasEmbed \in BOOLEAN}
    /\ generation = NewGenerator

Curate ==
    /\ curation.pc = "idle"
    /\ \E insights \in InsightInputs, options \in CurationOptionInputs :
           curation' = curate(curation, insights, options)
    /\ UNCHANGED <<storeVars, reflection, generation>>

SynthesisReturns ==
    /\ curation.pc = "synthesis"
    /\ \E response \in SynthesisResponses :
           /\ curation' = SynthesisResumes(curation, response, nextUuid, now)
           /\ nextUuid' = IF response.failed THEN nextUuid
                          ELSE parseOperations(response, nextUuid, now).next
    /\ UNCHANGED <<bullets, now, lastOp, steps, reflection, generation>>

EmbedReturns ==
    /\ curation.pc = "embed"
    /\ \E outcome \in EmbedOutcomes :
           curation' = EmbedResumes(curation, outcome, bullets)
    /\ UNCHANGED <<storeVars, reflection, generation>>

DedupReturns ==
    /\ curation.pc = "dedup"
    /\ \E response \in DedupResponses :
           curation' = DedupResumes(curation, response)
    /\ UNCHANGED <<storeVars, reflection, generation>>

NextCurate ==
    \/ Curate
    \/ SynthesisReturns
    \/ EmbedReturns
    \/ DedupReturns

SpecCurate == InitCurate /\ [][NextCurate]_vars

----------------------------------------------------------------------------
(* SpecGenerate: one generate() call on a Playbook that holds bullets      *)

MaxStored == 3          \* bullets in the Playbook when generate is called
MaxBulletsOption == 2   \* largest options.maxBullets

\* An id no stored bullet has.
UnknownId == MaxStored + 1

\* (section, helpful_count, harmful_count, last_used) of the stored bullets;
\* -1 stands for a bullet that was never used.
StoredProfiles ==
    {<<<<"S">>, 0, 0, -1>>,
     <<<<"T">>, 0, 0, -1>>,
     <<<<"S">>, 1, 0, 0>>,
     <<<<"S">>, 1, 1, MaxTime>>,
     <<<<"T">>, 0, 1, MaxTime>>}

StoredBullet(id, profile) ==
    [id |-> id, section |-> profile[1], content |-> <<"c">>,
     metadata |-> Spread([created |-> 0, helpful_count |-> profile[2],
                          harmful_count |-> profile[3]],
                         IF profile[4] < 0 THEN EmptyObj
                         ELSE [last_used |-> profile[4]])]

\* The Playbooks generate runs on: an import of up to MaxStored bullets
\* with the ids 1, 2, ...
StoredPlaybooks ==
    {import(<<>>, [i \in DOMAIN profiles |-> StoredBullet(i, profiles[i])]) :
        profiles \in SeqsUpTo(StoredProfiles, MaxStored)}

QueryInputs == {<<"q">>, <<" ">>}

GenerationOptionInputs ==
    {Spread(a, b) :
        a \in {EmptyObj} \cup {[maxBullets |-> k] : k \in -1..MaxBulletsOption},
        b \in {EmptyObj, [prioritySections |-> <<<<"T">>>>]}}

\* What llmProvider.chat answers: a text without a tracking section, texts
\* whose tracking section names stored and unknown ids, an id twice or no
\* id, texts with markers before the header or after the blank line that
\* ends the section, and the two kinds of failure.
GenerationResponses ==
    {Response(JInvalid, text) : text \in
        {<<Word("ok")>>,
         <<Word("ok"), Word(BlankLine), Word(TrackingHeader),
           Marker(HelpfulMarker, 1), Marker(HarmfulMarker, 2)>>,
         <<Word(TrackingHeader), Marker(HelpfulMarker, 1),
           Marker(HelpfulMarker, 1), Marker(HarmfulMarker, 1)>>,
         <<Word(TrackingHeader), Word(BlankLine), Marker(HelpfulMarker, 1)>>,
         <<Marker(HelpfulMarker, 1), Word(TrackingHeader),
           Marker(HarmfulMarker, 2), Marker(HelpfulMarker, UnknownId)>>,
         <<Word(TrackingHeader), Marker(HelpfulMarker, 0),
           Marker(HarmfulMarker, UnknownId)>>}}
    \cup RejectionInputs

InitGenerate ==
    /\ bullets \in StoredPlaybooks
    /\ nextUuid = Len(bullets) + 1
    /\ now = MaxTime
    /\ lastOp = [kind |-> "new"]
    /\ steps = 0
    /\ reflection = NewReflector(DefaultMaxIterations)
    /\ curation = NewCurator(TRUE)
    /\ generation = NewGenerator

\* generate(query, options) is called; it runs to its await.
Generate ==
    /\ generation.pc = "idle"
    /\ \E query \in QueryInputs, options \in GenerationOptionInputs :
           generation' = generate(generation, bullets, query, options)
    /\ UNCHANGED <<storeVars, reflection, curation>>

\* llmProvider.chat settles and generate runs to its end.
GenerationReturns ==
    /\ generation.pc = "chat"
    /\ \E response \in GenerationResponses :
           /\ generation' = GenerationResumes(generation, response, now)
           /\ bullets' = IF response.failed THEN bullets
                         ELSE RecordTracking(bullets, response.lines, now)
    /\ UNCHANGED <<nextUuid, now, lastOp, steps, reflection, curation>>

NextGenerate ==
    \/ Generate
    \/ GenerationReturns

SpecGenerate == InitGenerate /\ [][NextGenerate]_vars

----------------------------------------------------------------------------
(* SpecLoop: a caller drives the learning loop on one Playbook: generate,  *)
(* reflect on the trajectory, curate the insights, apply the operations,   *)
(* generate again.  A call that threw is made once more.                   *)

MaxRounds == 2          \* generate calls the caller starts a round with

\* The Playbook the loop starts on: empty, or holding one embedded bullet.
LoopSeeds == {<<>>, <<<<"a", <<1, 0>>>>>>}

LoopGenerationOptions == {EmptyObj, [maxBullets |-> 1]}

LoopGenerationResponses ==
    {Response(JInvalid, <<Word("ok")>>),
     Response(JInvalid, <<Word(TrackingHeader), Marker(HelpfulMarker, 1)>>)}
    \cup RejectionInputs

LoopReflectOptions == {[maxIterations |-> 2]}

\* Answers to the analysis and refinement calls: an insight for section S
\* as JSON, one as free text, JSON of the wrong shape, free text that holds
\* nothing, and the failures.
LoopInsightResponses ==
    {Response(JObj([insights |-> JArr(<<
                  JObj([observation |-> JStr(<<"o">>, NaN),
                        lesson |-> JStr(<<"l">>, NaN),
                        suggested_bullet |-> JStr(<<"b">>, NaN),
                        confidence |-> JNum(Rat(9, 10)),
                        section |-> JStr(<<"S">>, NaN)])>>)]), <<>>),
     Response(JInvalid,
              <<<<Word("observation:"), Word("t")>>,
                <<Word("lesson:"), Word("l")>>,
                <<Word("suggested_bullet:"), Word("b")>>,
                <<Word("confidence:"), Digits("0.7", Rat(7, 10))>>>>),
     Response(JObj([insights |-> JNum(One)]), <<<<Word("{}")>>>>),
     Response(JInvalid, <<<<Word("sorry")>>>>)}
    \cup RejectionInputs

LoopAssessmentResponses ==
    {Response(JObj([overall_quality |-> JNum(Rat(9, 10)),
                    should_refine |-> JBool(FALSE)]), <<>>),
     Response(JObj([overall_quality |-> JNum(Rat(3, 10)),
                    should_refine |-> JBool(TRUE)]), <<>>),
     Response(JArr(<<>>), <<>>),
     Response(JInvalid, <<>>)}
    \cup RejectionInputs

LoopCurationOptions == {EmptyObj, [enableDeduplication |-> TRUE]}

\* Answers to the synthesis call: one ADD for section S, an ADD and a DELETE,
\* JSON of the wrong shape, free text, and the failures.
LoopSynthesisResponses ==
    {Response(JObj([operations |-> JArr(<<AddJson("n")>>)]), <<>>),
     Response(JObj([operations |-> JArr(<<
                  AddJson("m"),
                  JObj([type |-> JWord("DELETE"), bulletId |-> JId(1)])>>)]),
              <<>>),
     Response(JObj([operations |-> JNum(One)]), <<<<Word("{}")>>>>),
     Response(JInvalid, <<<<Word("add"), Word("bullet"), Quoted(<<"t">>)>>>>),
     Response(JInvalid, <<<<Word("nothing"), Word("to"), Word("add")>>>>)}
    \cup RejectionInputs

LoopEmbedOutcomes ==
    {[failed |-> FALSE, embedding |-> <<3, 1>>],
     [failed |-> FALSE, embedding |-> <<0, 1>>]}
    \cup RejectionInputs

LoopDedupResponses ==
    {Response(JObj([recommendation |-> JWord("discard")]), <<>>),
     Response(JObj([recommendation |-> JWord("keep_separate")]), <<>>),
     Response(JNull, <<>>),
     Response(JInvalid, <<>>)}
    \cup RejectionInputs

InitLoop ==
    /\ bullets \in {Seeded(<<>>, seeds) : seeds \in LoopSeeds}
    /\ nextUuid = Len(bullets) + 1
    /\ now = 0
    /\ lastOp = [kind |-> "new"]
    /\ steps = 0
    /\ reflection = NewReflector(DefaultMaxIterations)
    /\ curation = NewCurator(TRUE)
    /\ generation = NewGenerator

\* The caller calls generate: at the start, after it applied the operations
\* of the round before, or again after generate threw.
LoopGenerate ==
    /\ \/ /\ lastOp.kind \in {"new", "applyDeltas"}
          /\ steps < MaxRounds
          /\ steps' = steps + 1
          /\ lastOp' = [kind |-> "generate", again |-> FALSE, before |-> bullets]
       \/ /\ lastOp.kind = "generate" /\ generation.pc = "thrown"
          /\ ~lastOp.again
          /\ steps' = steps
          /\ lastOp' = [kind |-> "generate", again |-> TRUE, before |-> bullets]
    /\ \E options \in LoopGenerationOptions :
           generation' = generate(generation, bullets, <<"q">>, options)
    /\ UNCHANGED <<bullets, nextUuid, now, reflection, curation>>

LoopGenerationReturns ==
    /\ generation.pc = "chat"
    /\ \E response \in LoopGenerationResponses :
           /\ generation' = GenerationResumes(generation, response, now)
           /\ bullets' = IF response.failed THEN bullets
                         ELSE RecordTracking(bullets, response.lines, now)
    /\ UNCHANGED <<nextUuid, now, lastOp, steps, reflection, curation>>

\* The caller hands the trajectory to reflect; the generate call of the
\* last round is where the behaviour ends.
LoopReflect ==
    /\ \/ /\ lastOp.kind = "generate" /\ generation.pc = "returned"
          /\ steps < MaxRounds
          /\ lastOp' = [kind |-> "reflect", again |-> FALSE, before |-> bullets]
       \/ /\ lastOp.kind = "reflect" /\ reflection.pc = "thrown"
          /\ ~lastOp.again
          /\ lastOp' = [kind |-> "reflect", again |-> TRUE, before |-> bullets]
    /\ \E options \in LoopReflectOptions :
           reflection' = reflect(reflection, generation.trajectory, options)
    /\ UNCHANGED <<bullets, nextUuid, now, steps, curation, generation>>

LoopAnalysisReturns ==
    /\ reflection.pc = "analysis"
    /\ \E response \in LoopInsightResponses :
           reflection' = AnalysisResumes(reflection, response)
    /\ UNCHANGED outsideReflect

LoopAssessmentReturns ==
    /\ reflection.pc = "assess"
    /\ \E response \in LoopAssessmentResponses :
           reflection' = AssessmentResumes(reflection, response)
    /\ UNCHANGED outsideReflect

LoopRefinementReturns ==
    /\ reflection.pc = "refine"
    /\ \E response \in LoopInsightResponses :
           reflection' = RefinementResumes(reflection, response)
    /\ UNCHANGED outsideReflect

\* The caller hands the insights to curate.
LoopCurate ==
    /\ \/ /\ lastOp.kind = "reflect" /\ reflection.pc = "returned"
          /\ lastOp' = [kind |-> "curate", again |-> FALSE, before |-> bullets]
       \/ /\ lastOp.kind = "curate" /\ curation.pc = "thrown"
          /\ ~lastOp.again
          /\ lastOp' = [kind |-> "curate", again |-> TRUE, before |-> bullets]
    /\ \E options \in LoopCurationOptions :
           curation' = curate(curation, reflection.insights, options)
    /\ UNCHANGED <<bullets, nextUuid, now, steps, reflection, generation>>

LoopSynthesisReturns ==
    /\ curation.pc = "synthesis"
    /\ \E response \in LoopSynthesisResponses :
           /\ curation' = SynthesisResumes(curation, response, nextUuid, now)
           /\ nextUuid' = IF response.failed THEN nextUuid
                          ELSE parseOperations(response, nextUuid, now).next
    /\ UNCHANGED <<bullets, now, lastOp, steps, reflection, generation>>

LoopEmbedReturns ==
    /\ curation.pc = "embed"
    /\ \E outcome \in LoopEmbedOutcomes :
           curation' = EmbedResumes(curation, outcome, bullets)
    /\ UNCHANGED <<storeVars, reflection, generation>>

LoopDedupReturns ==
    /\ curation.pc = "dedup"
    /\ \E response \in LoopDedupResponses :
           curation' = DedupResumes(curation, response)
    /\ UNCHANGED <<storeVars, reflection, generation>>

\* The caller applies the operations curate returned.
LoopApplyDeltas ==
    /\ lastOp.kind = "curate" /\ curation.pc = "returned"
    /\ LET st == applyDeltas(bullets, nextUuid, curation.operations)
       IN  /\ bullets' = st.bullets
           /\ nextUuid' = st.next
           /\ lastOp' = [kind |-> "applyDeltas", again |-> FALSE,
                         before |-> bullets]
    /\ UNCHANGED <<now, steps, reflection, curation, generation>>

NextLoop ==
    \/ LoopGenerate
    \/ LoopGenerationReturns
    \/ LoopReflect
    \/ LoopAnalysisReturns
    \/ LoopAssessmentReturns
    \/ LoopRefinementReturns
    \/ LoopCurate
    \/ LoopSynthesisReturns
    \/ LoopEmbedReturns
    \/ LoopDedupReturns
    \/ LoopApplyDeltas

SpecLoop == InitLoop /\ [][NextLoop]_vars

----------------------------------------------------------------------------
(* SpecSearch: one searchBullets() call on a Playbook that holds bullets   *)

MaxSearched == 3        \* bullets in the Playbook
MaxLimitOption == 2     \* the largest options.limit

\* (content, embedding) of the stored bullets; <<>> stands for a bullet
\* without an embedding.
SearchedProfiles ==
    {<<<<"a">>, <<>>>>,
     <<<<"a", "b">>, <<>>>>,
     <<<<"b", "a">>, <<1, 0>>>>,
     <<<<"A">>, <<>>>>,
     <<<<"c">>, <<1, 0>>>>}

SearchedBullet(id, profile) ==
    [id |-> id, section |-> <<"S">>, content |-> profile[1],
     metadata |-> Spread([created |-> 0, helpful_count |-> 0, harmful_count |-> 0],
                         IF profile[2] = <<>> THEN EmptyObj
                         ELSE [embedding |-> profile[2]])]

SearchedPlaybooks ==
    {import(<<>>, [i \in DOMAIN profiles |-> SearchedBullet(i, profiles[i])]) :
        profiles \in SeqsUpTo(SearchedProfiles, MaxSearched)}

SearchOptionInputs ==
    {Spread(Spread([query |-> q], l), Spread(m, e)) :
        q \in {<<"a">>, <<"a", "b">>, <<>>},
        l \in {EmptyObj} \cup {[limit |-> k] : k \in -1..MaxLimitOption},
        m \in {EmptyObj} \cup {[min_similarity |-> x] :
                                  x \in {Rat(-1, 1), Zero, Rat(9, 10), One}},
        e \in {EmptyObj, [use_embeddings |-> TRUE]}}

InitSearch ==
    /\ bullets \in SearchedPlaybooks
    /\ nextUuid = Len(bullets) + 1
    /\ now = 0
    /\ lastOp = [kind |-> "new"]
    /\ steps = 0
    /\ reflection = NewReflector(DefaultMaxIterations)
    /\ curation = NewCurator(TRUE)
    /\ generation = NewGenerator

SearchBullets ==
    /\ lastOp.kind = "new"
    /\ \E options \in SearchOptionInputs :
           lastOp' = [kind |-> "searchBullets", options |-> options,
                      results |-> searchBullets(bullets, options)]
    /\ steps' = steps + 1
    /\ UNCHANGED <<bullets, nextUuid, now>>
    /\ UNCHANGED outsideStore

NextSearch == SearchBullets

SpecSearch == InitSearch /\ [][NextSearch]_vars

----------------------------------------------------------------------------
(* SpecCalls: a caller calls generate with any query and then reflect with *)
(* any trajectory, the one generate returned or one of its own making      *)

CallQueryInputs == {<<"q">>, <<>>, <<" ">>, <<" ", " ">>}

InitCalls ==
    /\ bullets \in {Seeded(<<>>, seeds) : seeds \in LoopSeeds}
    /\ nextUuid = Len(bullets) + 1
    /\ now = 0
    /\ lastOp = [kind |-> "new"]
    /\ steps = 0
    /\ reflection = NewReflector(DefaultMaxIterations)
    /\ curation = NewCurator(TRUE)
    /\ generation = NewGenerator

CallGenerate ==
    /\ generation.pc = "idle"
    /\ reflection.pc = "idle"
    /\ \E query \in CallQueryInputs, options \in LoopGenerationOptions :
           generation' = generate(generation, bullets, query, options)
    /\ lastOp' = [kind |-> "generate", before |-> bullets]
    /\ UNCHANGED <<bullets, nextUuid, now, steps, reflection, curation>>

CallReflect ==
    /\ generation.pc \in {"returned", "thrown"}
    /\ reflection.pc = "idle"
    /\ \E trajectory \in TrajectoryInputs \cup
                          (IF generation.pc = "returned"
                           THEN {generation.trajectory} ELSE {}),
          options \in LoopReflectOptions :
           /\ reflection' = reflect(reflection, trajectory, options)
           /\ lastOp' = [kind |-> "reflect", before |-> bullets,
                         trajectory |-> [query |-> trajectory.query,
                                         response |-> trajectory.response]]
    /\ UNCHANGED <<bullets, nextUuid, now, steps, curation, generation>>

NextCalls ==
    \/ CallGenerate
    \/ LoopGenerationReturns
    \/ CallReflect
    \/ LoopAnalysisReturns
    \/ LoopAssessmentReturns
    \/ LoopRefinementReturns

SpecCalls == InitCalls /\ [][NextCalls]_vars

----------------------------------------------------------------------------
(* SpecRace: bullets are deleted while a generate call is suspended on the *)
(* Gateway, and a delta batch then names ids that may be gone               *)

RaceSeeds ==
    {<<<<"a", <<>>>>>>,
     <<<<"a", <<>>>>, <<"c", <<>>>>>>}

RaceResponses ==
    {Response(JInvalid, text) : text \in
        {<<Word("ok")>>,
         <<Word(TrackingHeader), Marker(HelpfulMarker, 1),
           Marker(HarmfulMarker, 2)>>,
         <<Word(TrackingHeader), Marker(HelpfulMarker, 2),
           Marker(HelpfulMarker, 1), Marker(HarmfulMarker, 1)>>}}
    \cup RejectionInputs

RaceOperations(t) ==
    {[type |-> "ADD", bullet |-> TypedBullet(0, <<"S">>, <<"n">>, t)]}
    \cup {[type |-> "UPDATE", bulletId |-> id, updates |-> [content |-> <<"u">>]] :
             id \in {1, 2}}
    \cup {[type |-> "DELETE", bulletId |-> id] : id \in {1, 2}}

InitRace ==
    /\ bullets \in {Seeded(<<>>, seeds) : seeds \in RaceSeeds}
    /\ nextUuid = Len(bullets) + 1
    /\ now = MaxTime
    /\ lastOp = [kind |-> "new"]
    /\ steps = 0
    /\ reflection = NewReflector(DefaultMaxIterations)
    /\ curation = NewCurator(TRUE)
    /\ generation = NewGenerator

RaceGenerate ==
    /\ generation.pc = "idle"
    /\ generation' = generate(generation, bullets, <<"q">>, EmptyObj)
    /\ lastOp' = [kind |-> "generate", raced |-> {}]
    /\ UNCHANGED <<bullets, nextUuid, now, steps, reflection, curation>>

\* Another caller deletes a bullet while generate awaits the chat call.
RaceDelete ==
    /\ generation.pc = "chat"
    /\ \E id \in MapKeys(bullets) :
           /\ bullets' = deleteBullet(bullets, id).bullets
           /\ lastOp' = [lastOp EXCEPT !.raced = @ \cup {id}]
    /\ UNCHANGED <<nextUuid, now, steps, reflection, curation, generation>>

RaceGenerationReturns ==
    /\ generation.pc = "chat"
    /\ \E response \in RaceResponses :
           /\ generation' = GenerationResumes(generation, response, now)
           /\ bullets' = IF response.failed THEN bullets
                         ELSE RecordTracking(bullets, response.lines, now)
           /\ lastOp' = [kind |-> "returned", raced |-> lastOp.raced,
                         failed |-> response.failed, before |-> bullets]
    /\ UNCHANGED <<nextUuid, now, steps, reflection, curation>>

RaceApplyDeltas ==
    /\ lastOp.kind = "returned"
    /\ \E operations \in SeqsUpTo(RaceOperations(now), MaxStoreOps + 1) :
           LET st == applyDeltas(bullets, nextUuid, operations)
           IN  /\ bullets' = st.bullets
               /\ nextUuid' = st.next
               /\ lastOp' = [kind |-> "applyDeltas", raced |-> lastOp.raced,
                             operations |-> operations,
                             before |-> bullets, beforeNext |-> nextUuid,
                             results |-> [added |-> st.added,
                                          updated |-> st.updated,
                                          deleted |-> st.deleted,
                                          errors |-> st.errors]]
    /\ UNCHANGED <<now, steps, reflection, curation, generation>>

NextRace ==
    \/ RaceGenerate
    \/ RaceDelete
    \/ RaceGenerationReturns
    \/ RaceApplyDeltas

SpecRace == InitRace /\ [][NextRace]_vars

----------------------------------------------------------------------------
(* SpecRounds: a caller curates the same insights round after round on one *)
(* Playbook and applies the operations of each round before the next.      *)

MaxCurations == 2       \* curate calls the caller makes

RoundsOptions ==
    {[enableDeduplication |-> TRUE],
     [enableDeduplication |-> TRUE, dedupThreshold |-> Rat(9, 10)]}

\* The candidates of the log that curate returned as ADDs after embed had
\* answered for them: their id, content and embedding.
AddedOf(log) ==
    LET Added(entry) ==
            /\ entry.embedded
            /\ entry.result.kept
            /\ entry.result.op.type = "ADD"
        Candidate(entry) ==
            [id |-> entry.result.op.bullet.id,
             content |-> entry.result.op.bullet.content,
             embedding |-> entry.embedding]
        added == SelectSeq(log, Added)
    IN  [i \in DOMAIN added |-> Candidate(added[i])]

InitRounds ==
    /\ bullets \in {Seeded(<<>>, seeds) : seeds \in LoopSeeds}
    /\ nextUuid = Len(bullets) + 1
    /\ now = 0
    /\ lastOp = [kind |-> "new", earlier |-> <<>>]
    /\ steps = 0
    /\ reflection = NewReflector(DefaultMaxIterations)
    /\ curation = NewCurator(TRUE)
    /\ generation = NewGenerator

\* The caller calls curate: at the start, and after it applied the
\* operations of the round before.
RoundsCurate ==
    /\ lastOp.kind \in {"new", "applyDeltas"}
    /\ steps < MaxCurations
    /\ steps' = steps + 1
    /\ lastOp' = [kind |-> "curate", earlier |-> lastOp.earlier]
    /\ \E options \in RoundsOptions :
           curation' = curate(curation, <<CuratedInsight(Rat(9, 10))>>, options)
    /\ UNCHANGED <<bullets, nextUuid, now, reflection, generation>>

\* The caller applies the operations curate returned.
RoundsApplyDeltas ==
    /\ lastOp.kind = "curate" /\ curation.pc = "returned"
    /\ LET st == applyDeltas(bullets, nextUuid, curation.operations)
       IN  /\ bullets' = st.bullets
           /\ nextUuid' = st.next
           /\ lastOp' = [kind |-> "applyDeltas",
                         earlier |-> lastOp.earlier \o AddedOf(curation.log)]
    /\ UNCHANGED <<now, steps, reflection, curation, generation>>

NextRounds ==
    \/ RoundsCurate
    \/ LoopSynthesisReturns
    \/ LoopEmbedReturns
    \/ LoopDedupReturns
    \/ RoundsApplyDeltas

SpecRounds == InitRounds /\ [][NextRounds]_vars

----------------------------------------------------------------------------
(* SpecServer: the ace_curate tool of the MCP server is called on the      *)
(* server's Playbook                                                       *)

\* The text of the tool response of handleCurate, as the object it
\* serialises.
CurateToolResponse(c) ==
    [success |-> TRUE, component |-> "curator", operations |-> c.operations,
     playbook_updated |-> Len(c.operations) > 0]

InitServer ==
    /\ bullets \in {Seeded(<<>>, seeds) : seeds \in SeedInputs}
    /\ nextUuid = Len(bullets) + 1
    /\ now = 0
    /\ lastOp = [kind |-> "new"]
    /\ steps = 0
    /\ reflection = NewReflector(DefaultMaxIterations)
    /\ curation \in {NewCurator(hasEmbed) : hasEmbed \in BOOLEAN}
    /\ generation = NewGenerator

\* handleCurate(args) up to the await of curate.
HandleCurate ==
    /\ lastOp.kind = "new"
    /\ \E insights \in InsightInputs :
           curation' = curate(curation, insights,
                              [minConfidence |-> Rat(1, 2)])
    /\ lastOp' = [kind |-> "ace_curate", before |-> bullets]
    /\ UNCHANGED <<bullets, nextUuid, now, steps, reflection, generation>>

\* curate has settled: handleCurate returns the tool response, or the
\* request handler turns the error into an McpError.
HandleCurateSettles ==
    /\ lastOp.kind = "ace_curate"
    /\ curation.pc \in {"returned", "thrown"}
    /\ lastOp' = IF curation.pc = "returned"
                 THEN [kind |-> "response", before |-> lastOp.before,
                       response |-> CurateToolResponse(curation)]
                 ELSE [kind |-> "McpError", before |-> lastOp.before]
    /\ UNCHANGED <<bullets, nextUuid, now, steps, reflection, curation,
                   generation>>

NextServer ==
    \/ HandleCurate
    \/ SynthesisReturns
    \/ HandleCurateSettles

SpecServer == InitServer /\ [][NextServer]_vars

----------------------------------------------------------------------------
(* Claims about the Playbook *)

\* The loop's state after the first k operations of the batch just applied.
AfterPrefix(k) ==
    applyDeltas(lastOp.before, lastOp.beforeNext, SubSeq(lastOp.operations, 1, k))

\* The Map entries other than `id` are the same in `pre` and `post`.
OthersSame(pre, post, id) ==
    /\ MapKeys(post) \ {id} = MapKeys(pre) \ {id}
    /\ \A j \in MapKeys(pre) \ {id} : MapGet(post, j) = MapGet(pre, j)

\* What an operation that did not throw must have done to the Map.
EffectVisible(operation, pre, post) ==
    CASE operation.type = "ADD" ->
            LET id == IF FalsyId(operation.bullet, "id") THEN pre.next
                      ELSE operation.bullet.id
            IN  /\ MapHas(post.bullets, id)
                /\ MapGet(post.bullets, id) = Spread(operation.bullet, [id |-> id])
                /\ OthersSame(pre.bullets, post.bullets, id)
      [] operation.type = "UPDATE" ->
            /\ MapHas(post.bullets, operation.bulletId)
            /\ \A f \in DOMAIN operation.updates \ {"id", "metadata"} :
                  MapGet(post.bullets, operation.bulletId)[f] = operation.updates[f]
            /\ OthersSame(pre.bullets, post.bullets, operation.bulletId)
      [] operation.type = "DELETE" ->
            /\ ~MapHas(post.bullets, operation.bulletId)
            /\ OthersSame(pre.bullets, post.bullets, operation.bulletId)
      [] OTHER -> FALSE

\* C1: applyDeltas applies a batch in order and is not transactional.  After
\* every batch: the errors tally is the number of operations that threw;
\* an operation that threw left the Map as the operations before it had made
\* it; and every operation that did not throw, before or after a failure,
\* took effect on the Map it found.
C1_ApplyDeltasPartialFailure ==
    lastOp.kind = "applyDeltas" =>
        LET ops == lastOp.operations
            n == Len(ops)
            failed == {k \in 1..n :
                          OperationThrows(AfterPrefix(k - 1).bullets, ops[k])}
        IN  /\ bullets = AfterPrefix(n).bullets
            /\ lastOp.results.errors = Cardinality(failed)
            /\ lastOp.results.added + lastOp.results.updated
                   + lastOp.results.deleted <= n - Cardinality(failed)
            /\ \A k \in failed : AfterPrefix(k).bullets = AfterPrefix(k - 1).bullets
            /\ \A k \in (1..n) \ failed :
                  EffectVisible(ops[k], AfterPrefix(k - 1), AfterPrefix(k))

\* A batch of three whose middle operation (an ADD without a bullet) threw
\* while the additions before and after it were both committed.
C1_Witness ==
    /\ lastOp.kind = "applyDeltas"
    /\ Len(lastOp.operations) = 3
    /\ lastOp.operations[2] = [type |-> "ADD"]
    /\ lastOp.results.errors = 1
    /\ lastOp.results.added = 2
    /\ Len(bullets) = Len(lastOp.before) + 2

HelpfulOf(bs, id) == MapGet(bs, id).metadata.helpful_count
HarmfulOf(bs, id) == MapGet(bs, id).metadata.harmful_count

\* C8: a feedback call never lowers a counter: every bullet present before
\* an updateBulletFeedback call is present after it with helpful_count and
\* harmful_count at least what they were.
C8_FeedbackMonotone ==
    [][lastOp'.kind = "updateBulletFeedback" =>
          \A id \in MapKeys(bullets) :
              /\ MapHas(bullets', id)
              /\ HelpfulOf(bullets', id) >= HelpfulOf(bullets, id)
              /\ HarmfulOf(bullets', id) >= HarmfulOf(bullets, id)]_storeVars

\* A harmful feedback call has just counted against the first bullet, whose
\* helpful_count was already positive.
C8_Witness ==
    /\ lastOp.kind = "updateBulletFeedback"
    /\ lastOp.type = "harmful"
    /\ MapHas(bullets, 1)
    /\ HelpfulOf(bullets, 1) >= 1
    /\ HarmfulOf(bullets, 1) >= 1

\* Whether the last call was an explicit UPDATE of bullet `id`: updateBullet
\* on it, or a batch holding an UPDATE operation that names it.
ExplicitUpdateOf(op, id) ==
    \/ op.kind = "updateBullet" /\ op.id = id
    \/ /\ op.kind = "applyDeltas"
       /\ \E k \in 1..Len(op.operations) :
             /\ op.operations[k].type = "UPDATE"
             /\ ~FalsyId(op.operations[k], "bulletId")
             /\ op.operations[k].bulletId = id

FeedbackOf(op, id) ==
    /\ op.kind = "updateBulletFeedback"
    /\ \E k \in 1..Len(op.ids) : op.ids[k] = id

\* C9: across add, delete, feedback and delta batches, the counters of a
\* bullet that stays in the Playbook change only through feedback on that
\* bullet or an explicit UPDATE of it.
C9_CountersOnlyByFeedbackOrUpdate ==
    [][lastOp'.kind \in {"addBullet", "updateBullet", "deleteBullet",
                         "updateBulletFeedback", "applyDeltas"} =>
          \A id \in MapKeys(bullets) \cap MapKeys(bullets') :
              (\/ HelpfulOf(bullets', id) # HelpfulOf(bullets, id)
               \/ HarmfulOf(bullets', id) # HarmfulOf(bullets, id))
              => (FeedbackOf(lastOp', id) \/ ExplicitUpdateOf(lastOp', id))]_storeVars

\* Whether the last call may destroy or rewrite bullet `id`: a delete or an
\* update of it (direct or in a batch), a clear or an import.
TargetedBy(op, id) ==
    \/ op.kind \in {"clear", "import"}
    \/ op.kind \in {"deleteBullet", "updateBullet"} /\ op.id = id
    \/ /\ op.kind = "applyDeltas"
       /\ \E k \in 1..Len(op.operations) :
             /\ op.operations[k].type \in {"UPDATE", "DELETE"}
             /\ ~FalsyId(op.operations[k], "bulletId")
             /\ op.operations[k].bulletId = id

\* C10: every bullet is stored under its own id, and a bullet stays in the
\* Playbook under that id with its section and content unchanged until a
\* DELETE, an UPDATE, a clear or an import targets it; an ADD never replaces
\* a bullet.
C10_BulletsPersistUnderTheirId ==
    [][/\ \A i \in 1..Len(bullets') : bullets'[i].key = bullets'[i].val.id
       /\ \A id \in MapKeys(bullets) :
             ~TargetedBy(lastOp', id) =>
                 /\ MapHas(bullets', id)
                 /\ MapGet(bullets', id).section = MapGet(bullets, id).section
                 /\ MapGet(bullets', id).content = MapGet(bullets, id).content]_storeVars

\* C11: every stored bullet has a section and a content that are non-empty
\* after trimming.
C11_StoredBulletsAreValid ==
    \A i \in DOMAIN bullets :
        /\ Has(bullets[i].val, "section")
        /\ Trim(bullets[i].val.section) # <<>>
        /\ Has(bullets[i].val, "content")
        /\ Trim(bullets[i].val.content) # <<>>

----------------------------------------------------------------------------
(* Claims about the Reflector *)

\* The maxIterations the caller configured: the option when it is given,
\* otherwise the Reflector's constructor value.
ConfiguredMaxIterations ==
    IF Has(reflection.options, "maxIterations")
    THEN reflection.options.maxIterations
    ELSE reflection.this_maxIterations

\* The maxIterations in effect: an option of 0 counts as omitted.
EffectiveMaxIterations ==
    IF Has(reflection.options, "maxIterations")
       /\ reflection.options.maxIterations # 0
    THEN reflection.options.maxIterations
    ELSE reflection.this_maxIterations

AtLeastOne(n) == IF n < 1 THEN 1 ELSE n

\* C2 as stated: every result reflect returns has
\* 1 <= iterations <= maxIterations, whatever maxIterations was configured.
C2_IterationsWithinConfigured ==
    reflection.pc = "returned" =>
        /\ 1 <= reflection.iterations
        /\ reflection.iterations <= ConfiguredMaxIterations

\* C2, amended: every result reflect returns has 1 <= iterations, and
\* iterations <= the maxIterations in effect (the option when given and
\* non-zero, otherwise the constructor's value) when that is at least 1;
\* when it is below 1 the result has iterations = 1.
C2_IterationsWithinEffective ==
    reflection.pc = "returned" =>
        /\ 1 <= reflection.iterations
        /\ reflection.iterations <= AtLeastOne(EffectiveMaxIterations)

\* reflect returned after using every iteration of an explicit limit above 1.
C2_Witness ==
    /\ reflection.pc = "returned"
    /\ Has(reflection.options, "maxIterations")
    /\ reflection.options.maxIterations >= 2
    /\ reflection.iterations = reflection.options.maxIterations

\* C3: within one reflect call a non-empty insight set never becomes empty;
\* a refinement that reads zero insights leaves the set as it was and still
\* adds one to iterations; and a result returned after any analysis or
\* refinement read at least one insight has non-empty insights.
C3_InsightsNeverRegress ==
    /\ [](reflection.pc = "returned" /\ reflection.produced
              => Len(reflection.insights) > 0)
    /\ [][reflection.pc \in {"assess", "refine"} =>
            /\ Len(reflection.insights) > 0 => Len(reflection'.insights) > 0
            /\ (reflection.pc = "refine" /\ reflection'.pc # "thrown"
                   /\ reflection'.refinedCount = 0)
                 => /\ reflection'.insights = reflection.insights
                    /\ reflection'.iterations = reflection.iterations + 1]_vars

\* A refinement read zero insights while the set was non-empty, and reflect
\* went on to return.
C3_Witness ==
    /\ reflection.pc = "returned"
    /\ reflection.refinedCount = 0
    /\ reflection.iterations >= 2
    /\ Len(reflection.insights) > 0

\* C4: while a refinement call is outstanding, the assessment before it had
\* quality < qualityThreshold and should_refine, and the iteration limit is
\* not reached; and every assessment of an empty insight set has quality 0
\* and should_refine.
C4_RefineOnlyBelowThreshold ==
    /\ reflection.pc = "refine" =>
           /\ reflection.assessment.made
           /\ Less(reflection.assessment.overall_quality,
                   reflection.qualityThreshold)
           /\ reflection.assessment.should_refine
           /\ reflection.iterations < reflection.maxIterations
    /\ (reflection.assessment.made /\ reflection.assessment.assessed = <<>>) =>
           /\ reflection.assessment.overall_quality = Zero
           /\ reflection.assessment.should_refine

----------------------------------------------------------------------------
(* Claims about the Curator *)

\* Deduplication is enabled and the provider has an embed method.
DedupEnabled ==
    /\ Has(curation.options, "enableDeduplication")
    /\ curation.options.enableDeduplication = TRUE
    /\ curation.hasEmbed

\* The dedupThreshold in effect: the option unless it is omitted or 0.
EffectiveDedupThreshold ==
    IF Has(curation.options, "dedupThreshold")
       /\ curation.options.dedupThreshold # Zero
    THEN curation.options.dedupThreshold
    ELSE Rat(17, 20)

StoredEmbedded == {b \in {bullets[i].val : i \in DOMAIN bullets} : Embedded(b)}

\* The stored bullets at or above the threshold similarity to `embedding`.
AtOrAbove(embedding) ==
    {b \in StoredEmbedded :
        /\ Len(b.metadata.embedding) = Len(embedding)
        /\ SimilarityGeq(cosineSimilarity(embedding, b.metadata.embedding),
                         EffectiveDedupThreshold)}

\* The stored bullets no other stored bullet is more similar to `embedding` than.
MostSimilar(embedding) ==
    {b \in AtOrAbove(embedding) :
        \A other \in AtOrAbove(embedding) :
            ~SimilarityGreater(
                cosineSimilarity(embedding, other.metadata.embedding),
                cosineSimilarity(embedding, b.metadata.embedding))}

\* The entry is a candidate ADD for which an assessment was obtained.
Assessed(entry) ==
    /\ entry.operation.type = "ADD"
    /\ Has(entry.operation, "bullet")
    /\ DedupEnabled
    /\ entry.embedded
    /\ AtOrAbove(entry.embedding) # {}
    /\ entry.similar # <<>>
    /\ entry.failure = "none"

UpdateOf(target, content) ==
    [type |-> "UPDATE", bulletId |-> target.id, updates |-> [content |-> content]]

\* The number of ADD operations in `operations` that carry `id`.
AddsOf(operations, id) ==
    Cardinality({j \in DOMAIN operations :
        /\ operations[j].type = "ADD"
        /\ Has(operations[j], "bullet")
        /\ operations[j].bullet.id = id})

C6_DedupFailuresKeepTheAdd ==
    /\ \A i \in DOMAIN curation.log :
           curation.log[i].failure # "none" =>
               /\ curation.log[i].operation.type = "ADD"
               /\ curation.log[i].result = Kept(curation.log[i].operation)
               /\ \E j \in DOMAIN curation.operations :
                      curation.operations[j] = curation.log[i].operation
    /\ curation.pc = "thrown" => (curation.log = <<>> /\ curation.embeds = 0)
    /\ curation.embeds > 0 => curation.pc # "thrown"

\* curate returned although one check failed in embed and another in the
\* assessment.
C6_Witness ==
    /\ curation.pc = "returned"
    /\ \E i, j \in DOMAIN curation.log :
           /\ curation.log[i].failure = "embed"
           /\ curation.log[j].failure \in {"assessment call", "assessment parse"}

\* The search threw on a stored embedding of another length, and curate
\* returned the ADD.
C6_WitnessSearch ==
    /\ curation.pc = "returned"
    /\ \E i \in DOMAIN curation.log : curation.log[i].failure = "search"

\* C7: with enableDeduplication false or omitted, or a provider without
\* embed, curate makes no embed call and no chat call besides the synthesis,
\* pushes every operation as parsed, and returns the parsed operations.
C7_NoDedupWhenOff ==
    ~DedupEnabled =>
        /\ curation.embeds = 0
        /\ curation.chats <= 1
        /\ curation.pc # "dedup"
        /\ \A i \in DOMAIN curation.log :
               curation.log[i].result = Kept(curation.log[i].operation)
        /\ curation.pc = "returned" =>
               curation.operations = curation.parsedOperations

\* curate returned an ADD untouched with the option omitted, although the
\* provider has embed and the Playbook holds embedded bullets.
C7_Witness ==
    /\ curation.pc = "returned"
    /\ ~Has(curation.options, "enableDeduplication")
    /\ curation.hasEmbed
    /\ StoredEmbedded # {}
    /\ \E j \in DOMAIN curation.operations :
           /\ curation.operations[j].type = "ADD"
           /\ Has(curation.operations[j], "bullet")

----------------------------------------------------------------------------
(* Claims about the Generator *)

\* generate has selected its bullets and awaits the chat; the Playbook is
\* as it was at selection time.
Selecting == generation.pc = "chat"

\* The ids selected, in order (the trajectory's bullets_used).
SelectedIds ==
    [i \in DOMAIN generation.selectedBullets |-> generation.selectedBullets[i].id]

\* The selection limit the caller asked for.
RequestedLimit ==
    IF Has(generation.options, "maxBullets") THEN generation.options.maxBullets
    ELSE DefaultMaxBullets

Min(a, b) == IF a < b THEN a ELSE b

\* C17: for every options.maxBullets, generate selects exactly
\* min(maxBullets, number of stored bullets) bullets (20 when the option is
\* omitted), all distinct and all in the Store at selection time.  A count
\* cannot be negative, so the statement is read for the limits from 0 up.
C17_SelectsUpToLimit ==
    (Selecting /\ RequestedLimit >= 0) =>
        /\ Len(SelectedIds) = Min(RequestedLimit, Len(bullets))
        /\ \A i, j \in DOMAIN SelectedIds :
               SelectedIds[i] = SelectedIds[j] => i = j
        /\ \A i \in DOMAIN SelectedIds : MapHas(bullets, SelectedIds[i])

\* A bullet is in one of the caller's priority sections.
InPrioritySection(bullet) ==
    /\ Has(generation.options, "prioritySections")
    /\ \E k \in DOMAIN generation.options.prioritySections :
           generation.options.prioritySections[k] = bullet.section

\* helpful/(helpful+harmful) of a is above that of b, 1/2 standing for a
\* bullet whose counters are both zero.
RatioAbove(a, b) ==
    LET ah == a.metadata.helpful_count
        at == a.metadata.helpful_count + a.metadata.harmful_count
        bh == b.metadata.helpful_count
        bt == b.metadata.helpful_count + b.metadata.harmful_count
        an == IF at = 0 THEN 1 ELSE ah
        ad == IF at = 0 THEN 2 ELSE at
        bn == IF bt = 0 THEN 1 ELSE bh
        bd == IF bt = 0 THEN 2 ELSE bt
    IN  an * bd > bn * ad

\* a was used more recently than b; a bullet never used is the oldest.
UsedAfter(a, b) ==
    LET at == IF Has(a.metadata, "last_used") THEN a.metadata.last_used ELSE 0
        bt == IF Has(b.metadata, "last_used") THEN b.metadata.last_used ELSE 0
    IN  at > bt

\* a ranks strictly above b: priority section, then ratio, then recency.
RanksAbove(a, b) ==
    \/ InPrioritySection(a) /\ ~InPrioritySection(b)
    \/ /\ InPrioritySection(a) = InPrioritySection(b)
       /\ \/ RatioAbove(a, b)
          \/ ~RatioAbove(b, a) /\ UsedAfter(a, b)

\* The place of a stored id in insertion order, and that of a selected id
\* in bullets_used (0: not selected).
InsertedAt(id) == CHOOSE i \in DOMAIN bullets : bullets[i].key = id
RECURSIVE SelectedAtFrom(_, _)
SelectedAtFrom(id, i) ==
    IF i > Len(SelectedIds) THEN 0
    ELSE IF SelectedIds[i] = id THEN i ELSE SelectedAtFrom(id, i + 1)
SelectedAt(id) == SelectedAtFrom(id, 1)

\* a comes before b in the ranking: it ranks above b, or they tie and a was
\* inserted first.
ComesBefore(a, b) ==
    \/ RanksAbove(a.val, b.val)
    \/ ~RanksAbove(b.val, a.val) /\ InsertedAt(a.key) < InsertedAt(b.key)

\* C18: selection is a deterministic ranking by priority section, then
\* helpfulness ratio (1/2 for unused bullets), then recency, ties in insertion
\* order: bullets_used lists its bullets in that order, and every selected
\* bullet comes before every unselected one.
C18_SelectionIsRanking ==
    Selecting =>
        \A i, j \in DOMAIN bullets :
            (i # j /\ ComesBefore(bullets[i], bullets[j])) =>
                /\ SelectedAt(bullets[j].key) # 0
                       => SelectedAt(bullets[i].key) # 0
                /\ (SelectedAt(bullets[i].key) # 0
                    /\ SelectedAt(bullets[j].key) # 0)
                       => SelectedAt(bullets[i].key) < SelectedAt(bullets[j].key)

\* A selection that left a bullet out and had to move a later bullet with a
\* higher ratio ahead of an earlier one of the same section.
C18_Witness ==
    /\ Selecting
    /\ Len(SelectedIds) < Len(bullets)
    /\ \E i, j \in DOMAIN bullets :
           /\ i < j
           /\ InPrioritySection(bullets[i].val) = InPrioritySection(bullets[j].val)
           /\ RatioAbove(bullets[j].val, bullets[i].val)
           /\ SelectedAt(bullets[j].key) # 0
           /\ SelectedAt(bullets[i].key) = 0

\* generate returns its trajectory in this step.
GenerateSucceeds == generation.pc = "chat" /\ generation'.pc = "returned"

\* Position p of a text lies in its tracking section: after the first
\* header, with no blank line in between.
InTrackingSection(text, p) ==
    \E h \in 1..(p - 1) :
        /\ text[h].w = TrackingHeader
        /\ \A k \in 1..(h - 1) : text[k].w # TrackingHeader
        /\ \A k \in (h + 1)..(p - 1) : text[k].w # BlankLine

\* The ids of the markers of one kind in the tracking section, from
\* position p on.
RECURSIVE MarkedFrom(_, _, _)
MarkedFrom(text, kind, p) ==
    IF p > Len(text) THEN <<>>
    ELSE IF text[p].w = kind /\ text[p].id # 0 /\ InTrackingSection(text, p)
         THEN <<text[p].id>> \o MarkedFrom(text, kind, p + 1)
         ELSE MarkedFrom(text, kind, p + 1)

Occurrences(ids, id) == Cardinality({k \in DOMAIN ids : ids[k] = id})

\* C16: after a successful generate the trajectory's bullets_helpful and
\* bullets_harmful are exactly the ids of the markers of the response's
\* tracking section; every stored bullet's counters went up by the number
\* of times its id occurs, with last_used stamped; other ids change nothing.
C16_TrackingIsRecorded ==
    [][GenerateSucceeds =>
          LET text == generation'.trajectory.response
              helpful == MarkedFrom(text, HelpfulMarker, 1)
              harmful == MarkedFrom(text, HarmfulMarker, 1)
          IN  /\ generation'.trajectory.bullets_helpful = helpful
              /\ generation'.trajectory.bullets_harmful = harmful
              /\ Len(bullets') = Len(bullets)
              /\ \A i \in DOMAIN bullets :
                     LET id == bullets[i].key
                         before == bullets[i].val.metadata
                         after == bullets'[i].val.metadata
                     IN  /\ bullets'[i].key = id
                         /\ after.helpful_count
                                = before.helpful_count + Occurrences(helpful, id)
                         /\ after.harmful_count
                                = before.harmful_count + Occurrences(harmful, id)
                         /\ IF Occurrences(helpful, id) + Occurrences(harmful, id) > 0
                            THEN /\ Has(after, "last_used")
                                 /\ after.last_used = now
                            ELSE bullets'[i] = bullets[i]]_vars

\* A trajectory that names a stored bullet twice as helpful and once as
\* harmful, beside a bullet it does not name.
C16_Witness ==
    /\ generation.pc = "returned"
    /\ generation.trajectory.bullets_helpful = <<1, 1>>
    /\ generation.trajectory.bullets_harmful = <<1>>
    /\ Len(bullets) >= 2
    /\ bullets[1].val.metadata.helpful_count >= 2
    /\ bullets[1].val.metadata.harmful_count >= 1

\* The confidence threshold of the curate call: options.minConfidence, or
\* 0.5 when the option is omitted.
EffectiveMinConfidence ==
    IF Has(curation.options, "minConfidence") THEN curation.options.minConfidence
    ELSE Rat(1, 2)

\* The insights of the call whose confidence is present and at or above the
\* threshold.
ConfidentInsights ==
    LET Confident(insight) ==
            /\ Has(insight, "confidence")
            /\ Geq(insight.confidence, EffectiveMinConfidence)
    IN  SelectSeq(curation.insights, Confident)

\* C19: curate passes to synthesis exactly the insights whose confidence is
\* present and at or above minConfidence (0.5 by default); when there is none
\* it calls no synthesis.  An insight without confidence never passes; one
\* with confidence 0 passes when minConfidence is 0.
C19_FilterByConfidence ==
    curation.pc # "idle" =>
        IF ConfidentInsights = <<>>
        THEN curation.pc = "returned" /\ curation.chats = 0
        ELSE curation.filteredInsights = ConfidentInsights

\* C21: a curate call whose insight list is empty (or absent, which the call
\* tests the same way), or holds no insight whose confidence is present and
\* at or above the threshold, returns no operation and statistics of zero
\* adds, updates and deletes, with no Gateway call and no error.
C21_NothingToCurateIsEmptyResult ==
    (curation.pc # "idle" /\ ConfidentInsights = <<>>) =>
        /\ curation.pc = "returned"
        /\ curation.error = "none"
        /\ curation.operations = <<>>
        /\ curation.statistics = [adds |-> 0, updates |-> 0, deletes |-> 0]
        /\ curation.chats = 0
        /\ curation.embeds = 0

\* An operation carries the fields its type requires.
CarriesRequiredFields(operation) ==
    /\ operation.type = "ADD" =>
           /\ Has(operation, "bullet")
           /\ Has(operation.bullet, "id") /\ operation.bullet.id # 0
           /\ Has(operation.bullet, "metadata")
           /\ Has(operation.bullet.metadata, "helpful_count")
           /\ Has(operation.bullet.metadata, "harmful_count")
    /\ operation.type = "UPDATE" =>
           Has(operation, "bulletId") /\ Has(operation, "updates")
    /\ operation.type = "DELETE" => Has(operation, "bulletId")

\* C20: every operation curate returns carries the fields its type requires
\* (ADD: a bullet with id and metadata; UPDATE: bulletId and updates; DELETE:
\* bulletId); a synthesized operation that lacks one is not in the result.
C20_OperationsAreComplete ==
    curation.pc = "returned" =>
        \A j \in DOMAIN curation.operations :
            CarriesRequiredFields(curation.operations[j])

----------------------------------------------------------------------------
(* Claims about the loop *)

\* A call that threw after it had called the Gateway.  (A call that rejects
\* its arguments throws before any Gateway call.)
GenerateAborted == generation.pc = "thrown" /\ generation.chats > 0
ReflectAborted == reflection.pc = "thrown" /\ reflection.chats > 0
CurateAborted == curation.pc = "thrown" /\ curation.chats > 0

\* C13: every Gateway failure during generate, reflect or the synthesis of
\* curate reaches the caller wrapped in the component's own error
\* (GeneratorError, ReflectorError, CuratorError) with the failure as cause.
C13_GatewayFailuresAreWrapped ==
    /\ GenerateAborted => generation.error = "GeneratorError(cause)"
    /\ ReflectAborted => reflection.error = "ReflectorError(cause)"
    /\ CurateAborted => curation.error = "CuratorError(cause)"

\* The component the caller called last is the one of this kind.
LastCalled(kind) == lastOp.kind = kind

\* Every failure of the Gateway call a component awaits ends the call, with
\* no further Gateway call.
FailureEndsTheCall ==
    \A rejection \in RejectionInputs :
        /\ generation.pc = "chat" =>
               LET g == GenerationResumes(generation, rejection, now)
               IN  g.pc = "thrown" /\ g.chats = generation.chats
        /\ reflection.pc = "analysis" =>
               LET r == AnalysisResumes(reflection, rejection)
               IN  r.pc = "thrown" /\ r.chats = reflection.chats
        /\ reflection.pc = "assess" =>
               LET r == AssessmentResumes(reflection, rejection)
               IN  r.pc = "thrown" /\ r.chats = reflection.chats
        /\ reflection.pc = "refine" =>
               LET r == RefinementResumes(reflection, rejection)
               IN  r.pc = "thrown" /\ r.chats = reflection.chats
        /\ curation.pc = "synthesis" =>
               LET c == SynthesisResumes(curation, rejection, nextUuid, now)
               IN  c.pc = "thrown" /\ c.chats = curation.chats

\* After an aborted call the Store is what it was when the call was made,
\* and a query returns its bullets.
StoreAsBeforeTheCall ==
    ((LastCalled("generate") /\ GenerateAborted)
        \/ (LastCalled("reflect") /\ ReflectAborted)
        \/ (LastCalled("curate") /\ CurateAborted))
    => /\ bullets = lastOp.before
       /\ getBullets(bullets, EmptyObj) = MapValues(lastOp.before)

\* An aborted call does nothing more: the component stays as it is until the
\* caller calls it again.
AbortedCallIsOver ==
    /\ (GenerateAborted /\ generation' # generation)
           => lastOp' # lastOp /\ lastOp'.kind = "generate"
    /\ (ReflectAborted /\ reflection' # reflection)
           => lastOp' # lastOp /\ lastOp'.kind = "reflect"
    /\ (CurateAborted /\ curation' # curation)
           => lastOp' # lastOp /\ lastOp'.kind = "curate"

\* C14: a Gateway chat failure that aborts generate, reflect or curate aborts
\* only that call: it is not retried, the invocation makes no further Gateway
\* call, and the Store is exactly as before the invocation (generate records
\* no feedback) and can be queried.
C14_FailureAbortsOnlyTheCall ==
    /\ [](FailureEndsTheCall /\ StoreAsBeforeTheCall)
    /\ [][AbortedCallIsOver]_vars

\* generate threw on a Playbook that holds a bullet; the caller called it
\* again and this time it returned.
C14_Witness ==
    /\ LastCalled("generate")
    /\ lastOp.again
    /\ generation.pc = "returned"
    /\ Len(bullets) > 0

\* Synthesis answers of the wrong shape: no JSON, JSON that is no object,
\* an operations field that is no array, and arrays whose elements are null,
\* lack their payload or have no type.
MalformedSynthesisResponses ==
    {Response(json, <<<<Word("add"), Word("bullet"), Quoted(<<>>)>>>>) :
        json \in {JInvalid, JNull, JNum(One), JArr(<<>>), JObj(EmptyObj),
                  JObj([operations |-> JNull]),
                  JObj([operations |-> JArr(<<JNull>>)]),
                  JObj([operations |-> JArr(<<JNum(One)>>)]),
                  JObj([operations |-> JArr(<<JObj(EmptyObj)>>)]),
                  JObj([operations |-> JArr(<<JObj([type |-> JWord("ADD")]),
                                              JObj([type |-> JWord("UPDATE")]),
                                              JObj([type |-> JWord("DELETE")])>>)]),
                  JObj([operations |-> JArr(<<AddJson("n"), JNull>>)])}}

\* C15: malformed model output is never an error: whatever text the Gateway
\* returns to a chat call of generate, reflect or curate, the call goes on
\* without throwing.
C15_MalformedOutputIsNoError ==
    /\ generation.pc = "chat" =>
           \A response \in GenerationResponses \cup LoopGenerationResponses :
               ~response.failed =>
                   GenerationResumes(generation, response, now).pc = "returned"
    /\ reflection.pc = "analysis" =>
           \A response \in InsightResponses \cup LoopInsightResponses :
               ~response.failed =>
                   AnalysisResumes(reflection, response).pc # "thrown"
    /\ reflection.pc = "assess" =>
           \A response \in AssessmentResponses \cup LoopAssessmentResponses :
               ~response.failed =>
                   AssessmentResumes(reflection, response).pc # "thrown"
    /\ reflection.pc = "refine" =>
           \A response \in InsightResponses \cup LoopInsightResponses :
               ~response.failed =>
                   RefinementResumes(reflection, response).pc # "thrown"
    /\ curation.pc = "synthesis" =>
           \A response \in MalformedSynthesisResponses
                                \cup LoopSynthesisResponses :
               ~response.failed =>
                   SynthesisResumes(curation, response, nextUuid, now).pc
                       # "thrown"
    /\ curation.pc = "dedup" =>
           \A response \in DedupResponses \cup LoopDedupResponses :
               ~response.failed =>
                   DedupResumes(curation, response).pc # "thrown"

\* A round in which the analysis was answered in free text and the synthesis
\* with text that holds no operation: reflect returned the insight it could
\* read and curate returned no operation.
C15_Witness ==
    /\ reflection.pc = "returned"
    /\ Len(reflection.insights) = 1
    /\ reflection.insights[1].observation = <<"t">>
    /\ curation.pc = "returned"
    /\ curation.chats > 0
    /\ curation.operations = <<>>

\* curate returned exactly one operation, an ADD with its bullet.
CuratedOneAdd ==
    /\ curation.pc = "returned"
    /\ Len(curation.operations) = 1
    /\ curation.operations[1].type = "ADD"
    /\ Has(curation.operations[1], "bullet")

CuratedBullet == curation.operations[1].bullet

\* A list of bullets holds the curated one.
HoldsCurated(list) ==
    \E i \in DOMAIN list :
        /\ list[i].id = CuratedBullet.id
        /\ list[i].content = CuratedBullet.content

\* The selection limit of the generate call in progress lets every stored
\* bullet in.
LimitAllows == Len(bullets) <= RequestedLimit

\* C12: the loop is closed.  Once the single ADD that curate returned has
\* been applied, a query for the bullet's section returns the bullet (and
\* nothing else when the Store was empty), and the next generate call has
\* its id in bullets_used when the selection limit allows.
C12_LoopIsClosed ==
    /\ (LastCalled("applyDeltas") /\ CuratedOneAdd) =>
           LET found == getBullets(bullets, [section |-> CuratedBullet.section])
           IN  /\ HoldsCurated(found)
               /\ lastOp.before = <<>> => Len(found) = 1
    /\ (LastCalled("generate") /\ CuratedOneAdd
            /\ generation.pc \in {"chat", "returned"} /\ LimitAllows) =>
           \E i \in DOMAIN generation.selectedBullets :
               generation.selectedBullets[i].id = CuratedBullet.id

\* On an empty Store a round ended with one ADD, and the generate call of
\* the next round used the new bullet.
C12_Witness ==
    /\ LastCalled("generate")
    /\ CuratedOneAdd
    /\ generation.pc = "returned"
    /\ Len(bullets) = 1
    /\ generation.trajectory.bullets_used = <<CuratedBullet.id>>

----------------------------------------------------------------------------
(* Claims about the Playbook's calls *)

\* C22: addBullet on a Playbook that already holds maxPlaybookSize bullets
\* throws the size-limit error, whatever its arguments, and leaves the Map
\* as it was.
C22_AddAtCapacityFails ==
    [][\A in \in AddInputs :
          (/\ lastOp'.kind = "addBullet"
           /\ Len(bullets) >= maxPlaybookSize
           /\ AddBulletOf(in)) =>
              /\ lastOp'.threw
              /\ lastOp'.message = SizeLimitReached
              /\ bullets' = bullets]_vars

\* addBullet has just thrown on a full Playbook.
C22_Witness ==
    /\ lastOp.kind = "addBullet"
    /\ lastOp.threw
    /\ lastOp.message = SizeLimitReached
    /\ Len(bullets) = maxPlaybookSize

\* The field `f` (section or content) the bullet `id` would have after the
\* update.
ResultingField(id, updates, f) ==
    IF Has(updates, f) THEN updates[f] ELSE MapGet(bullets, id)[f]

\* C23: updateBullet on an id the Playbook does not hold throws not-found;
\* an update whose resulting section or content is empty after trimming
\* throws the validation error; a throwing update leaves the Map as it was.
C23_FailingUpdateChangesNothing ==
    [][\A id \in TargetIds, updates \in UpdateInputs :
          (lastOp'.kind = "updateBullet" /\ UpdateBulletOf(id, updates)) =>
              /\ ~MapHas(bullets, id) =>
                     lastOp'.threw /\ lastOp'.message = BulletNotFound
              /\ (/\ MapHas(bullets, id)
                  /\ \/ Trim(ResultingField(id, updates, "section")) = <<>>
                     \/ Trim(ResultingField(id, updates, "content")) = <<>>) =>
                     lastOp'.threw /\ lastOp'.message = FieldsRequired
              /\ lastOp'.threw => bullets' = bullets]_vars

\* The part of C23 the code keeps: unknown ids and blank contents throw, and
\* a throwing update changes nothing.
FailingUpdateExceptBlankSection ==
    [][\A id \in TargetIds, updates \in UpdateInputs :
          (lastOp'.kind = "updateBullet" /\ UpdateBulletOf(id, updates)) =>
              /\ ~MapHas(bullets, id) =>
                     lastOp'.threw /\ lastOp'.message = BulletNotFound
              /\ (/\ MapHas(bullets, id)
                  /\ \/ ResultingField(id, updates, "section") = <<>>
                     \/ Trim(ResultingField(id, updates, "content")) = <<>>) =>
                     lastOp'.threw /\ lastOp'.message = FieldsRequired
              /\ lastOp'.threw => bullets' = bullets]_vars

\* C24: a successful updateBullet(id, updates) keeps the bullet under id
\* with that id even when updates names another, keeps the Map's keys and
\* every other bullet, and merges metadata: a metadata field that
\* updates.metadata does not name keeps its value.
C24_UpdatePreservesIdAndMerges ==
    [][\A id \in TargetIds, updates \in UpdateInputs :
          (/\ lastOp'.kind = "updateBullet"
           /\ ~lastOp'.threw
           /\ UpdateBulletOf(id, updates)) =>
              /\ Len(bullets') = Len(bullets)
              /\ \A i \in DOMAIN bullets :
                     /\ bullets'[i].key = bullets[i].key
                     /\ bullets[i].key # id => bullets'[i] = bullets[i]
              /\ MapHas(bullets', id)
              /\ MapGet(bullets', id).id = id
              /\ \A f \in DOMAIN MapGet(bullets, id).metadata :
                     (Has(updates, "metadata") /\ Has(updates.metadata, f))
                     \/ /\ Has(MapGet(bullets', id).metadata, f)
                        /\ MapGet(bullets', id).metadata[f]
                               = MapGet(bullets, id).metadata[f]]_vars

\* An update that named another id has moved the first bullet to section T;
\* the bullet is still under its own id, next to a second bullet, and no
\* bullet is under the named id.
C24_Witness ==
    /\ lastOp.kind = "updateBullet"
    /\ ~lastOp.threw
    /\ Len(bullets) >= 2
    /\ MapHas(bullets, 1)
    /\ MapGet(bullets, 1).section = <<"T">>
    /\ MapGet(bullets, 1).id = 1
    /\ ~MapHas(bullets, ForeignId)

\* C25: deleteBullet never throws; on a present id it returns true and
\* removes that entry alone; on an absent id it returns false and changes
\* nothing, so deleting the same id once more returns false.
C25_DeleteIsIdempotent ==
    [][\A id \in TargetIds :
          (lastOp'.kind = "deleteBullet" /\ DeleteBulletOf(id)) =>
              /\ ~lastOp'.threw
              /\ ~MapHas(bullets', id)
              /\ IF MapHas(bullets, id)
                 THEN /\ lastOp'.ret = 1
                      /\ Len(bullets') = Len(bullets) - 1
                      /\ \A i \in DOMAIN bullets :
                             bullets[i].key # id =>
                                 /\ MapHas(bullets', bullets[i].key)
                                 /\ MapGet(bullets', bullets[i].key) = bullets[i].val
                 ELSE lastOp'.ret = 0 /\ bullets' = bullets
              /\ deleteBullet(bullets', id).ret = 0
              /\ deleteBullet(bullets', id).bullets = bullets']_vars

\* A delete of the first id, which had been given out and is no longer
\* there, has returned false on a Playbook that holds another bullet.
C25_Witness ==
    /\ lastOp.kind = "deleteBullet"
    /\ lastOp.id = 1
    /\ lastOp.ret = 0
    /\ nextUuid > 1
    /\ bullets # <<>>

\* C26: updateBulletFeedback(ids, type) raises the counter named by type by
\* the number of times the id is listed and stamps last_used, for each
\* listed id the Playbook holds; the other counter, the id, section, content
\* and remaining metadata of those bullets, every bullet not listed and the
\* Map's keys stay as they were; an unknown id is skipped.
C26_FeedbackTouchesOnlyItsCounter ==
    [][\A ids \in FeedbackLists, type \in {"helpful", "harmful"} :
          (/\ lastOp'.kind = "updateBulletFeedback"
           /\ lastOp'.ids = ids
           /\ lastOp'.type = type
           /\ RecordFeedbackOf(ids, type)) =>
              /\ ~lastOp'.threw
              /\ Len(bullets') = Len(bullets)
              /\ \A i \in DOMAIN bullets :
                     LET id == bullets[i].key
                         before == bullets[i].val
                         after == bullets'[i].val
                         n == Occurrences(ids, id)
                     IN  /\ bullets'[i].key = id
                         /\ n = 0 => after = before
                         /\ n > 0 =>
                                /\ after.metadata.helpful_count =
                                       before.metadata.helpful_count
                                       + (IF type = "helpful" THEN n ELSE 0)
                                /\ after.metadata.harmful_count =
                                       before.metadata.harmful_count
                                       + (IF type = "harmful" THEN n ELSE 0)
                                /\ after.metadata.last_used = now
                                /\ \A f \in DOMAIN before \ {"metadata"} :
                                       Has(after, f) /\ after[f] = before[f]
                                /\ \A f \in DOMAIN before.metadata
                                          \ {"helpful_count", "harmful_count",
                                             "last_used"} :
                                       /\ Has(after.metadata, f)
                                       /\ after.metadata[f] = before.metadata[f]]_vars

\* A helpful feedback call that listed the first bullet and an unknown id
\* has counted for the first bullet and left a second bullet alone.
C26_Witness ==
    /\ lastOp.kind = "updateBulletFeedback"
    /\ lastOp.type = "helpful"
    /\ lastOp.ids \in {<<1, ForeignId>>, <<ForeignId, 1>>}
    /\ Len(bullets) = 2
    /\ MapHas(bullets, 1)
    /\ MapGet(bullets, 1).metadata.helpful_count >= 1
    /\ Has(MapGet(bullets, 1).metadata, "last_used")
    /\ ~MapHas(bullets, ForeignId)
    /\ ~Has(bullets[2].val.metadata, "last_used")

----------------------------------------------------------------------------
(* Claims about the search *)

Searched == lastOp.kind = "searchBullets"

\* The limit and the minimum similarity of the call: 10 and 0.5 when the
\* options leave them out.
SearchLimit ==
    IF Has(lastOp.options, "limit") THEN lastOp.options.limit ELSE 10
SearchMinSimilarity ==
    IF Has(lastOp.options, "min_similarity") THEN lastOp.options.min_similarity
    ELSE Rat(1, 2)

\* Where the Playbook holds the bullet of a result.
StoredAt(result) == IndexOf(bullets, result.bullet.id, 1)

\* The score of a substring match of `query` in `content`.
SubstringScore(query, content) ==
    LET ratio == Rat(2 * Len(query), Len(content))
    IN  IF Less(ratio, Rat(9, 10)) THEN ratio ELSE Rat(9, 10)

\* C27: for a limit of zero or more, the results of searchBullets are
\* stored bullets in non-increasing score order, equal scores in insertion
\* order; none scores below min_similarity and there are at most `limit`
\* of them; a substring result scores min(2|query|/|content|, 0.9); a
\* bullet whose content is the query is an exact result of score 1 ahead of
\* every substring result, unless min_similarity is above 1 or the limit
\* cut it off behind other exact results.
C27_SearchIsRanked ==
    (Searched /\ SearchLimit >= 0) =>
        LET results == lastOp.results
            query == lastOp.options.query
        IN  /\ Len(results) <= SearchLimit
            /\ \A i \in DOMAIN results :
                   /\ StoredAt(results[i]) # 0
                   /\ bullets[StoredAt(results[i])].val = results[i].bullet
                   /\ Geq(results[i].score, SearchMinSimilarity)
                   /\ results[i].match_type \in {"exact", "substring"}
                   /\ results[i].match_type = "substring" =>
                          results[i].score
                              = SubstringScore(query, results[i].bullet.content)
                   /\ results[i].bullet.content = query =>
                          /\ results[i].score = One
                          /\ results[i].match_type = "exact"
            /\ \A i, j \in DOMAIN results :
                   i < j =>
                       /\ Geq(results[i].score, results[j].score)
                       /\ results[i].score = results[j].score =>
                              StoredAt(results[i]) < StoredAt(results[j])
                       /\ results[j].match_type = "exact" =>
                              results[i].match_type = "exact"
            /\ \A k \in DOMAIN bullets :
                   (bullets[k].val.content = query /\ Geq(One, SearchMinSimilarity)) =>
                       \/ \E i \in DOMAIN results : StoredAt(results[i]) = k
                       \/ /\ Len(results) = SearchLimit
                          /\ \A i \in DOMAIN results :
                                 results[i].match_type = "exact"

\* A search with a limit of two on a Playbook whose first two bullets hold
\* the query inside a longer content and whose third bullet is the query:
\* the third bullet comes first as the exact match, then the first bullet.
C27_Witness ==
    /\ Searched
    /\ SearchLimit = 2
    /\ Len(bullets) = 3
    /\ lastOp.options.query = <<"a">>
    /\ bullets[3].val.content = <<"a">>
    /\ bullets[1].val.content = <<"a", "b">>
    /\ bullets[2].val.content = <<"b", "a">>
    /\ Len(lastOp.results) = 2
    /\ lastOp.results[1].bullet.id = bullets[3].key
    /\ lastOp.results[1].match_type = "exact"
    /\ lastOp.results[2].bullet.id = bullets[1].key
    /\ lastOp.results[2].match_type = "substring"

\* C28: with use_embeddings set, a stored bullet that carries an embedding
\* and matches the query neither exactly nor as a substring is among the
\* results with match_type embedding when its cosine similarity is at least
\* min_similarity.  The call takes no query embedding, so the reading that
\* holds for every query embedding is checked: at a min_similarity of -1,
\* which no cosine similarity is below, and with room under the limit, such
\* a bullet is among the results.
C28_EmbeddingMatchesAreReturned ==
    (/\ Searched
     /\ Has(lastOp.options, "use_embeddings")
     /\ lastOp.options.use_embeddings
     /\ SearchMinSimilarity = Rat(-1, 1)
     /\ SearchLimit > Len(bullets)) =>
        \A k \in DOMAIN bullets :
            LET bullet == bullets[k].val
                query == lastOp.options.query
            IN  (/\ Has(bullet.metadata, "embedding")
                 /\ bullet.content # query
                 /\ ~StringIncludes(bullet.content, query)) =>
                    \E i \in DOMAIN lastOp.results :
                        /\ StoredAt(lastOp.results[i]) = k
                        /\ lastOp.results[i].match_type = "embedding"

\* An entry import keeps: it has an id, a section, a content and metadata.
Importable(bullet) ==
    /\ Has(bullet, "id") /\ bullet.id # 0
    /\ Has(bullet, "section") /\ bullet.section # <<>>
    /\ Has(bullet, "content") /\ bullet.content # <<>>
    /\ Has(bullet, "metadata")

\* Importing what export returns, into this Playbook or into a new one,
\* gives the Map it was exported from.
RoundTrips ==
    /\ import(bullets, export(bullets)) = bullets
    /\ import(<<>>, export(bullets)) = bullets

\* An import never throws and leaves the Map holding the entries of the list
\* that have id, section, content and metadata, in the order of the list.
ImportSkipsInvalid ==
    \A list \in ImportLists(now) :
        (lastOp'.kind = "import" /\ ImportOf(list)) =>
            LET valid == SelectSeq(list, Importable)
            IN  /\ ~lastOp'.threw
                /\ bullets' = [i \in DOMAIN valid |->
                                  [key |-> valid[i].id, val |-> valid[i]]]

\* C29: export then import gives back the same bullets with the same
\* fields, and import skips the entries that lack id, section, content or
\* metadata and keeps exactly the others.
C29_ExportImportRoundTrips == [](RoundTrips) /\ [][ImportSkipsInvalid]_vars

\* The second half of C29 alone.
ImportKeepsExactlyTheValid == [][ImportSkipsInvalid]_vars

----------------------------------------------------------------------------
(* Claims about the validation of the calls *)

\* C30: generate called with an empty query or one of blanks only throws
\* its validation error, and reflect called with a trajectory whose query
\* or response is empty throws its own, in both cases with no Gateway call
\* made and the Playbook as it was when the call was made.
C30_ValidationPrecedesEffects ==
    /\ (generation.pc # "idle" /\ Trim(generation.query) = <<>>) =>
           /\ generation.pc = "thrown"
           /\ generation.error = "GeneratorError"
           /\ generation.chats = 0
           /\ lastOp.kind = "generate" => bullets = lastOp.before
    /\ (/\ lastOp.kind = "reflect"
        /\ lastOp.trajectory.query = <<>> \/ lastOp.trajectory.response = <<>>) =>
           /\ reflection.pc = "thrown"
           /\ reflection.error = "ReflectorError"
           /\ reflection.chats = 0
           /\ bullets = lastOp.before

\* generate threw on a query of blanks and reflect then threw on a
\* trajectory without a response; the Playbook still holds its bullet.
C30_Witness ==
    /\ generation.pc = "thrown"
    /\ generation.query = <<" ">>
    /\ generation.chats = 0
    /\ lastOp.kind = "reflect"
    /\ lastOp.trajectory.response = <<>>
    /\ reflection.pc = "thrown"
    /\ reflection.chats = 0
    /\ bullets # <<>>

----------------------------------------------------------------------------
(* Claims about the numbers the Reflector returns *)

\* A number is within [0, 1]; NaN is not.
WithinUnit(x) == Geq(x, Zero) /\ Geq(One, x)

\* C31: whatever the Gateway answers, a result reflect returns has a
\* quality_score within [0, 1] and every insight in it has a confidence
\* within [0, 1].
C31_ScoresWithinUnitInterval ==
    reflection.pc = "returned" =>
        /\ WithinUnit(reflection.currentQuality)
        /\ \A i \in DOMAIN reflection.insights :
               WithinUnit(reflection.insights[i].confidence)

\* The two halves of C31 on their own.
QualityWithinUnit ==
    reflection.pc = "returned" => WithinUnit(reflection.currentQuality)
ConfidenceWithinUnit ==
    reflection.pc = "returned" =>
        \A i \in DOMAIN reflection.insights :
            WithinUnit(reflection.insights[i].confidence)

----------------------------------------------------------------------------
(* Claims about calls that race with deletes *)

\* An UPDATE or DELETE that names an id the Map does not hold.
NamesMissingId(bs, operation) ==
    /\ operation.type \in {"UPDATE", "DELETE"}
    /\ ~FalsyId(operation, "bulletId")
    /\ ~MapHas(bs, operation.bulletId)

\* C32: when bullets were deleted while generate awaited the Gateway, a
\* response that arrives still makes the call return; the bullets that are
\* left get the feedback of the response and no deleted bullet is stored
\* again.  In a delta batch, an UPDATE or DELETE of an id that is not there
\* leaves the Map as it found it, and every other operation of the batch
\* still takes effect.
C32_MissingIdsAreSoftNoOps ==
    /\ lastOp.kind = "returned" =>
           /\ generation.pc = "returned" <=> ~lastOp.failed
           /\ MapKeys(bullets) = MapKeys(lastOp.before)
           /\ lastOp.raced \cap MapKeys(bullets) = {}
           /\ generation.pc = "returned" =>
                  \A id \in MapKeys(bullets) :
                      /\ HelpfulOf(bullets, id) =
                             HelpfulOf(lastOp.before, id)
                             + Occurrences(generation.trajectory.bullets_helpful, id)
                      /\ HarmfulOf(bullets, id) =
                             HarmfulOf(lastOp.before, id)
                             + Occurrences(generation.trajectory.bullets_harmful, id)
    /\ lastOp.kind = "applyDeltas" =>
           LET ops == lastOp.operations
               n == Len(ops)
           IN  /\ bullets = AfterPrefix(n).bullets
               /\ \A k \in 1..n :
                      IF NamesMissingId(AfterPrefix(k - 1).bullets, ops[k])
                      THEN AfterPrefix(k).bullets = AfterPrefix(k - 1).bullets
                      ELSE EffectVisible(ops[k], AfterPrefix(k - 1), AfterPrefix(k))

\* The first bullet was deleted while generate awaited a response that
\* marks it helpful; generate returned and counted for the second bullet;
\* then a batch whose UPDATE names the deleted bullet failed on it and
\* still added a bullet.
C32_Witness ==
    /\ lastOp.kind = "applyDeltas"
    /\ lastOp.raced = {1}
    /\ generation.pc = "returned"
    /\ Occurrences(generation.trajectory.bullets_helpful, 1) = 1
    /\ Len(lastOp.operations) = 2
    /\ lastOp.operations[1].type = "UPDATE"
    /\ lastOp.operations[1].bulletId = 1
    /\ lastOp.operations[2].type = "ADD"
    /\ lastOp.results.errors = 1
    /\ lastOp.results.added = 1
    /\ ~MapHas(bullets, 1)
    /\ MapHas(bullets, 2)
    /\ HelpfulOf(bullets, 2) + HarmfulOf(bullets, 2) >= 1

----------------------------------------------------------------------------
(* Claims about who changes the Playbook *)

\* The ids the response of the generate call attributed.
AttributedIds ==
    IF generation.pc = "returned"
    THEN {generation.trajectory.bullets_helpful[k] :
             k \in DOMAIN generation.trajectory.bullets_helpful}
         \cup {generation.trajectory.bullets_harmful[k] :
                  k \in DOMAIN generation.trajectory.bullets_harmful}
    ELSE {}

\* Two bullets are the same but for helpful_count, harmful_count and
\* last_used.
SameButFeedback(before, after) ==
    /\ DOMAIN after = DOMAIN before
    /\ \A f \in DOMAIN before \ {"metadata"} : after[f] = before[f]
    /\ DOMAIN after.metadata \ {"last_used"} = DOMAIN before.metadata \ {"last_used"}
    /\ \A f \in DOMAIN before.metadata
              \ {"helpful_count", "harmful_count", "last_used"} :
           after.metadata[f] = before.metadata[f]

\* C33: from the moment reflect or curate is called until the caller's next
\* call, whatever the Gateway answers, the Playbook is the one it was at the
\* call: same entries, same order, same fields.  During and after a generate
\* call the Playbook has the same entries in the same order; only bullets the
\* response attributed differ, and only in helpful_count, harmful_count and
\* last_used.
C33_OnlyStoreCallsChangeTheStore ==
    /\ lastOp.kind \in {"reflect", "curate"} => bullets = lastOp.before
    /\ lastOp.kind = "generate" =>
           /\ Len(bullets) = Len(lastOp.before)
           /\ \A i \in DOMAIN bullets :
                  /\ bullets[i].key = lastOp.before[i].key
                  /\ IF bullets[i].key \in AttributedIds
                     THEN SameButFeedback(lastOp.before[i].val, bullets[i].val)
                     ELSE bullets[i] = lastOp.before[i]

\* In the second round generate selected from two bullets and its response
\* attributed the first one only; the second bullet is as it was.
C33_Witness ==
    /\ lastOp.kind = "generate"
    /\ generation.pc = "returned"
    /\ Len(bullets) >= 2
    /\ AttributedIds = {bullets[1].key}
    /\ bullets[1] # lastOp.before[1]
    /\ bullets[2] = lastOp.before[2]

----------------------------------------------------------------------------
(* Claims about the statistics of a curation *)

\* The number of returned operations of one type.
ReturnedOfType(type) ==
    Cardinality({i \in DOMAIN curation.operations :
                    curation.operations[i].type = type})

\* The statistics count the returned operations type by type.
StatisticsCountEachType ==
    curation.pc = "returned" =>
        /\ curation.statistics.adds = ReturnedOfType("ADD")
        /\ curation.statistics.updates = ReturnedOfType("UPDATE")
        /\ curation.statistics.deletes = ReturnedOfType("DELETE")

\* C34: in every result of curate the statistics count the returned
\* operations of type ADD, UPDATE and DELETE, and the three counts add up to
\* the number of returned operations.
C34_StatisticsCoverTheOperations ==
    /\ StatisticsCountEachType
    /\ curation.pc = "returned" =>
           curation.statistics.adds + curation.statistics.updates
               + curation.statistics.deletes = Len(curation.operations)

----------------------------------------------------------------------------
(* Claims about the size of the Playbook *)

\* C35: whatever sequence of addBullet, applyDeltas and import calls is
\* made, the Playbook never holds more than maxPlaybookSize bullets.
C35_SizeNeverExceedsTheMaximum == Len(bullets) <= maxPlaybookSize

----------------------------------------------------------------------------
(* Claims about merges of one curation *)

\* The log entries of the candidate ADDs that the curate call rewrote into
\* a merge UPDATE of bullet `id`.
MergedInto(id) ==
    {i \in DOMAIN curation.log :
        /\ curation.log[i].operation.type = "ADD"
        /\ curation.log[i].recommendation = "merge"
        /\ curation.log[i].result.kept
        /\ curation.log[i].result.op.type = "UPDATE"
        /\ curation.log[i].result.op.bulletId = id}

\* The Playbook once the returned operations have been applied in order.
AfterTheCuration == applyDeltas(bullets, nextUuid, curation.operations).bullets

\* C36: when one curate call has rewritten two or more candidate ADDs into
\* merge UPDATEs of the same bullet, the content of that bullet after
\* applyDeltas of the returned operations contains the content of every one
\* of these candidates.
C36_EveryMergedCandidateSurvives ==
    curation.pc = "returned" =>
        \A id \in MapKeys(bullets) :
            Cardinality(MergedInto(id)) >= 2 =>
                /\ MapHas(AfterTheCuration, id)
                /\ \A i \in MergedInto(id) :
                       StringIncludes(MapGet(AfterTheCuration, id).content,
                                      curation.log[i].operation.bullet.content)

----------------------------------------------------------------------------
(* Claims about deduplication across rounds *)

\* The candidates of the running curate call that repeat an ADD applied in
\* an earlier round: same content, same embedding from embed, and the
\* earlier bullet is still stored.  Pairs <<index in the log, index in
\* lastOp.earlier>>.
RepeatedCandidates ==
    {pair \in (DOMAIN curation.log) \X (DOMAIN lastOp.earlier) :
        LET entry == curation.log[pair[1]]
            earlier == lastOp.earlier[pair[2]]
        IN  /\ entry.operation.type = "ADD"
            /\ Has(entry.operation, "bullet")
            /\ entry.embedded
            /\ entry.operation.bullet.content = earlier.content
            /\ entry.embedding = earlier.embedding
            /\ MapHas(bullets, earlier.id)}

\* C37: once an ADD that curate returned has been applied with applyDeltas,
\* a later curate call (deduplication enabled) that gets a candidate of the
\* same content finds the new bullet in its similarity search, and when the
\* Gateway recommends discard the candidate is not returned as an ADD.
C37_DedupSeesEarlierAdds ==
    (lastOp.kind = "curate" /\ curation.pc = "returned") =>
        \A pair \in RepeatedCandidates :
            LET entry == curation.log[pair[1]]
                earlier == lastOp.earlier[pair[2]]
            IN  /\ \E k \in DOMAIN entry.similar :
                       entry.similar[k].id = earlier.id
                /\ entry.recommendation = "discard" => ~entry.result.kept

----------------------------------------------------------------------------
(* Claims about the bullets a generate call gives feedback on *)

ElementsOf(list) == {list[k] : k \in DOMAIN list}

\* C38: when generate returns, bullets_helpful and bullets_harmful of the
\* trajectory hold only ids of bullets_used, and every stored bullet that is
\* not in bullets_used is as it was before the return.
C38_FeedbackOnlyOnUsedBullets ==
    [][(generation.pc = "chat" /\ generation'.pc = "returned") =>
           LET used == ElementsOf(generation'.trajectory.bullets_used)
           IN  /\ ElementsOf(generation'.trajectory.bullets_helpful) \subseteq used
               /\ ElementsOf(generation'.trajectory.bullets_harmful) \subseteq used
               /\ \A i \in DOMAIN bullets :
                      bullets[i].key \notin used =>
                          /\ i \in DOMAIN bullets'
                          /\ bullets'[i] = bullets[i]]_vars

----------------------------------------------------------------------------
(* Claims about the score a reflection returns *)

\* Some assessment was performed during the call.
ScoreIsOfAnAssessment ==
    reflection.pc = "returned" => reflection.assessment.made

\* C39: when reflect returns, an assessment was performed during the call,
\* the last one was performed on exactly the insights that are returned (no
\* refinement came after it), and quality_score is its score.
C39_ScoreIsOfTheReturnedInsights ==
    reflection.pc = "returned" =>
        /\ reflection.assessment.made
        /\ reflection.assessment.assessed = reflection.insights
        /\ reflection.currentQuality = reflection.assessment.overall_quality

\* Whenever an assessment was performed, the returned insights are the ones
\* it assessed.
NoRefinementAfterTheAssessment ==
    (reflection.pc = "returned" /\ reflection.assessment.made) =>
        reflection.assessment.assessed = reflection.insights

----------------------------------------------------------------------------
(* Claims about the ace_curate tool *)

\* C40: whenever the response of the ace_curate tool says playbook_updated,
\* the server's Playbook is not the one it was when the tool was called.
C40_ReportedUpdateIsAnUpdate ==
    (lastOp.kind = "response" /\ lastOp.response.playbook_updated) =>
        bullets # lastOp.before

====
